---------------------------- MODULE Spec2Model ----------------------------
(***************************************************************************)
(* A model of the offline export pipeline of the VIS monorepo               *)
(* (packages/export): the capture driver renderDeterministicFrames with     *)
(* its headless-mode / launch-profile retry policy and placeholder          *)
(* fallback, the static entry server, and the frame-sequence comparator.    *)
(*                                                                          *)
(* Several specifications share this module:                                  *)
(*   Spec         one call of renderDeterministicFrames                     *)
(*   ServerSpec   one request handled by the static entry server            *)
(*   CompareSpec  compareFrameSequences applied to two directories          *)
(* Each specification holds the other components' variables fixed.          *)
(***************************************************************************)
EXTENDS Integers, Sequences, FiniteSets, TLC

VARIABLES
    \* ---- capture driver (renderDeterministicFrames) ----
    options,              \* OfflineRendererOptions: [totalFrames, entry]
    env,                  \* process.platform, VIS_HEADLESS, the workspace on disk
    pc,                   \* position of the single thread of control
    headlessPreferences,  \* resolveHeadlessPreference()
    index,                \* index into headlessPreferences (1-based)
    profileIdx,           \* index into launchProfiles (1-based)
    frame,                \* loop counter of the frame loops
    frames,               \* FrameRenderResult[] being built
    pending,              \* completion in flight: a return value or a thrown error
    browser,              \* the Browser handle of renderWithProfile
    staticServer,         \* the StaticServerHandle of renderWithHeadless
    lastError,            \* lastError of renderDeterministicFrames
    result,               \* what renderDeterministicFrames returned or threw
    disk,                 \* outDir: file name -> who wrote it last
    \* ---- capture driver: observations ----
    launches,             \* number of puppeteer.launch calls so far
    attempts,             \* <<headless, profile description>> of every launch
    previous,             \* the last finished (mode, profile) attempt
    modeFailures,         \* [headless, error] of every failed headless-mode attempt
    nativeFailed,         \* some attempt failed with a native-dependency error
    openBrowsers,         \* browsers launched and not yet closed
    openServers,          \* static servers listening and not yet closed
    builds,               \* number of build commands run
    placeholderTaken,     \* renderPlaceholderFrames was invoked
    log,                  \* what the current profile attempt has done so far
    \* ---- static entry server ----
    request,              \* [method, url]
    srv,                  \* handler state of the request
    \* ---- comparator ----
    dirs,                 \* the two directories on disk
    cmp,                  \* results of the comparisons made so far
    \* ---- release manifest ----
    man,                  \* one writeReleaseManifest call
    \* ---- video encoder ----
    enc,                  \* one encodeVideo call
    \* ---- pipeline ----
    run,                  \* the pipeline script and runRenderAndEncode
    \* ---- protocol timeout ----
    tmo,                  \* process.env.VIS_PROTOCOL_TIMEOUT and the module-level cache
    \* ---- frame file names ----
    ord,                  \* two captured frames, their file names and the sorted listing
    \* ---- step errors ----
    enr,                  \* one thrown value and the labelled steps it has escaped
    \* ---- concurrent requests ----
    con,                  \* the handlers of the requests the static server has in flight
    \* ---- engine ----
    eng,                  \* one VisEngine, its frame callback and its listeners
    \* ---- audio ----
    aud,                  \* one AudioController and the transport
    \* ---- comparator summary ----
    agg                   \* the per-frame counts of one comparison and its summary

renderVars == <<options, env, pc, headlessPreferences, index, profileIdx, frame,
                frames, pending, browser, staticServer, lastError, result, disk,
                launches, attempts, previous, modeFailures, nativeFailed,
                openBrowsers, openServers, builds, placeholderTaken, log>>
serverVars == <<request, srv>>
compareVars == <<dirs, cmp>>
moreVars == <<con, eng, aud, agg>>
toolVars == <<man, enc, run, tmo, ord, enr, moreVars>>
vars == <<renderVars, serverVars, compareVars, toolVars>>
nonRenderVars == <<serverVars, compareVars, toolVars>>

---------------------------------------------------------------------------
(* Bounds of the model. *)
MaxFrames == 3

---------------------------------------------------------------------------
(* Strings are sequences; decimal formatting as Number.prototype.toString  *)
(* and String.prototype.padStart compute it.                               *)

RECURSIVE ToDigits(_)
ToDigits(n) == IF n < 10 THEN <<n>> ELSE ToDigits(n \div 10) \o <<n % 10>>

RECURSIVE PadStart(_, _, _)
PadStart(s, targetLength, fill) ==
    IF Len(s) >= targetLength THEN s ELSE PadStart(<<fill>> \o s, targetLength, fill)

RECURSIVE DigitsValue(_)
DigitsValue(ds) ==
    IF Len(ds) = 0 THEN 0
    ELSE 10 * DigitsValue(SubSeq(ds, 1, Len(ds) - 1)) + ds[Len(ds)]

FramePadWidth == 5

\* numbers that are not integers, as fractions in lowest terms
RECURSIVE GCD(_, _)
GCD(a, b) == IF b = 0 THEN a ELSE GCD(b, a % b)
Fraction(num, den) == LET g == GCD(num, den) IN [num |-> num \div g, den |-> den \div g]
FractionLeq(a, b) == a.num * b.den <= b.num * a.den
FractionAdd(a, b) == Fraction(a.num * b.den + b.num * a.den, a.den * b.den)
Zero == Fraction(0, 1)

FrameFileNameShort(i) == <<"frame-", PadStart(ToDigits(i), FramePadWidth - 1, 0), ".png">>
\* `frame-${frame.toString().padStart(5, "0")}.png`
FrameFileName(i) == <<"frame-", PadStart(ToDigits(i), FramePadWidth, 0), ".png">>

\* join(options.outDir, <file name>)
FramePath(i) == [dir |-> "outDir", file |-> FrameFileName(i)]

FrameRecord(i) == [frame |-> i, path |-> FramePath(i)]


---------------------------------------------------------------------------
(* Errors.  An Error is characterised by which of the code's regular       *)
(* expressions its message matches (the three classifiers test the message *)
(* independently, so a message may match several), by the launch attempt   *)
(* during which it was thrown, and by the launch-profile contexts that     *)
(* annotateLaunchProfileFailure has prefixed to it.                        *)

ErrClasses == {"autodetect", "native", "recoverable"}

NoError == [cls |-> {}, attempt |-> 0, context |-> {}, origin |-> "none", diagnostics |-> <<>>]

\* an error thrown during launch attempt number `attempt` (0: outside any attempt)
NewError(cls, attempt) ==
    [cls |-> cls, attempt |-> attempt, context |-> {}, origin |-> "step", diagnostics |-> <<>>]

\* the rejection of browser.close() or staticServer.close()
CloseError(attempt) ==
    [cls |-> {}, attempt |-> attempt, context |-> {}, origin |-> "close", diagnostics |-> <<>>]

\* /Unable to auto-detect a suitable renderer/i.test(error.message)
isRendererAutoDetectIssue(error) == "autodetect" \in error.cls

\* missing shared library, /undefined symbol:/i, /Inconsistency detected by ld\.so/i
shouldFallbackToPlaceholderFrames(error) == "native" \in error.cls

\* '<X>.enable timed out', 'Page.addScriptToEvaluateOnNewDocument timed out',
\* 'Failed to launch the browser process'
isRecoverableShellError(error) == "recoverable" \in error.cls

\* describeHeadless: the modes are written as their descriptions
HeadlessModes == {"shell", "true", "false"}

\* String.prototype.toLowerCase on the values of VIS_HEADLESS
LowerCaseValue(value) ==
    CASE value = "SHELL" -> "shell" [] value = "New" -> "new" [] value = "FALSE" -> "false"
      [] OTHER -> value

resolveHeadlessPreferenceTrueOnly(platform, VIS_HEADLESS) ==
    LET envValue == LowerCaseValue(VIS_HEADLESS)
    IN IF envValue = "shell" THEN <<"shell">>
       ELSE IF envValue = "true" THEN <<"true">>
       ELSE IF envValue = "false" THEN <<"false">>
       ELSE IF platform = "win32" THEN <<"true", "shell">> ELSE <<"shell", "true">>
resolveHeadlessPreference(platform, VIS_HEADLESS) ==
    LET envValue == LowerCaseValue(VIS_HEADLESS)
    IN IF envValue = "shell" THEN <<"shell">>
       ELSE IF envValue \in {"new", "true"} THEN <<"true">>
       ELSE IF envValue = "false" THEN <<"false">>
       ELSE IF platform = "win32" THEN <<"true", "shell">> ELSE <<"shell", "true">>

buildLaunchProfilesRepeatingFirst(headless) ==
    LET angle == [description |-> "ANGLE OpenGL", args |-> <<"--use-gl=angle">>]
    IN <<angle, [description |-> "SwiftShader", args |-> <<"--use-gl=swiftshader">>],
         [description |-> "Software fallback", args |-> <<"--disable-gpu">>], angle>>
buildLaunchProfiles(headless) ==
    LET baseArgs == (IF headless \in {"shell", "false"} THEN <<>> ELSE <<"--headless=new">>)
                    \o <<"--autoplay-policy=no-user-gesture-required", "--disable-dev-shm-usage">>
        gpuArgs == <<"--enable-gpu", "--ignore-gpu-blocklist", "--enable-webgl",
                     "--enable-webgl2", "--enable-accelerated-2d-canvas">>
    IN << [description |-> "ANGLE OpenGL",
           args |-> baseArgs \o gpuArgs \o <<"--use-gl=angle", "--use-angle=opengl">>],
          [description |-> "SwiftShader",
           args |-> baseArgs \o gpuArgs \o <<"--use-gl=swiftshader", "--use-angle=swiftshader">>],
          [description |-> "Software fallback",
           args |-> baseArgs \o <<"--disable-gpu", "--use-gl=swiftshader">>] >>

\* error.message = `${context}: ${error.message}` unless it already includes context
annotateLaunchProfileFailure(error, profile, headless) ==
    [error EXCEPT !.context = @ \cup {<<profile.description, headless>>}]

AdvancesProfileOnAnyError(annotated, idx, launchProfiles) ==
    idx # Len(launchProfiles)
\* the catch block of the profile loop: the next profile is tried only after a
\* renderer-auto-detect failure of a profile that is not the last one
AdvancesProfile(annotated, idx, launchProfiles) ==
    /\ isRendererAutoDetectIssue(annotated)
    /\ idx # Len(launchProfiles)

isAnyMode(headless) == TRUE
\* const isShell = headless === "shell"
isShell(headless) == headless = "shell"

RetriesAnyModeWithNext(failure, headless, idx, preferences) ==
    /\ idx < Len(preferences)
    /\ isRecoverableShellError(failure)
\* const recoverable = isShell && hasNext && isRecoverableShellError(failure)
RetriesNextMode(failure, headless, idx, preferences) ==
    /\ isShell(headless)
    /\ idx < Len(preferences)
    /\ isRecoverableShellError(failure)

CloseErrorReplacesCompletion(completion, closeError) == [kind |-> "throw", error |-> closeError]
\* finally { try { await close() } catch (error) { console.warn(...) } }: the
\* completion of the try block stands
CompletionAfterClose(completion, closeError) == completion

ReadinessFailureConsoleFirst(error, pageErrors, consoleErrors, cls) ==
    IF Len(consoleErrors) > 0 \/ Len(pageErrors) > 0
    THEN [cls |-> cls, attempt |-> error.attempt, context |-> {}, origin |-> "diagnostics",
          diagnostics |-> consoleErrors \o pageErrors]
    ELSE error
\* the catch block around page.waitForFunction: with recorded console or page
\* errors a new Error whose message lists them (and so matches whatever
\* patterns their texts match: cls), otherwise the error of waitForFunction
ReadinessFailure(error, pageErrors, consoleErrors, cls) ==
    IF Len(consoleErrors) > 0 \/ Len(pageErrors) > 0
    THEN [cls |-> cls, attempt |-> error.attempt, context |-> {}, origin |-> "diagnostics",
          diagnostics |-> pageErrors \o consoleErrors]
    ELSE error

\* url: `http://127.0.0.1:${address.port}/`, one port per listening server
ServerUrl(serial) == <<"http://127.0.0.1", serial>>
NoUrl == <<"none", 0>>
RemoteUrl == <<"https://remote", 0>>
FileUrl == <<"file://", 0>>

entryUrlIgnoringServer(serverUrl, entry) ==
    IF entry = "remote" THEN RemoteUrl ELSE FileUrl
\* staticServer ? staticServer.url
\*   : options.entry.startsWith("http") ? options.entry : pathToFileURL(...)
entryUrlOf(serverUrl, entry) ==
    IF serverUrl # NoUrl THEN serverUrl
    ELSE IF entry = "remote" THEN RemoteUrl ELSE FileUrl

GenericRenderFailure(error) == NewError({}, 0)
\* throw lastError instanceof Error ? lastError : new Error("Offline render failed")
ThrownAfterModeLoop(error) == error

ClosesBrowserOnSuccessOnly(b, completion) == b = "open" /\ completion = "return"
\* finally { if (browser) { ... browser.close() ... } }
ClosesBrowser(b, completion) == b = "open"

ClosesServerOnSuccessOnly(s, completion) == s = "listening" /\ completion = "return"
\* finally { if (staticServer) { ... staticServer.close() ... } }
ClosesServer(s, completion) == s = "listening"

frameTimeOfNextFrame(frameIndex, fps) == Fraction((frameIndex + 1) * 1000, fps)
\* const time = (frame / options.fps) * 1000
frameTime(frameIndex, fps) == Fraction(frameIndex * 1000, fps)

\* const basePath = join(options.outDir, "frame-00000.png")
PlaceholderBasePath == [dir |-> "outDir", file |-> <<"frame-", <<0, 0, 0, 0, 0>>, ".png">>]

PlaceholderSkipsExisting(written) == Cardinality(DOMAIN written) + 1
\* for (let frame = 1; frame < options.totalFrames; frame++)
PlaceholderFirstCopy(written) == 1

WriteFileUnlessPresent(d, path, content) == d @@ (path :> content)
\* page.screenshot({ path }), createWriteStream(path), copyFile(src, path)
WriteFile(d, path, content) == (path :> content) @@ d

copyFileUnlessPresent(d, src, dest) == IF dest \in DOMAIN d THEN d ELSE WriteFile(d, dest, d[src])
\* copyFile(src, dest): dest is created or overwritten with the content of src
copyFile(d, src, dest) == WriteFile(d, dest, d[src])

\* the file at path, if a browser attempt wrote it
BrowserFileAt(d, path) == IF path \in DOMAIN d /\ d[path] = "browser" THEN {path} ELSE {}

---------------------------------------------------------------------------
(* The capture driver: renderDeterministicFrames, renderWithHeadless,      *)
(* renderWithProfile, renderPlaceholderFrames.  One action per awaited     *)
(* step; a step that can reject does so with an error of any class.        *)

Platforms == {"win32", "linux"}
HeadlessEnvValues == {"unset", "shell", "true", "false"}

\* what the page reports while it loads: "pageerror" events and console
\* messages of type "error"
QuietPage == [pageErrors |-> <<>>, consoleErrors |-> <<>>]
Pages == [pageErrors : {<<>>, <<"p1">>, <<"p1", "p2">>}, consoleErrors : {<<>>, <<"c1">>}]

\* const fps = Number(process.argv[5] ?? 60)
DefaultFrameRate == 60

Workspaces ==
    {[entryExists |-> TRUE, hasPackageJson |-> TRUE, hasBuildScript |-> TRUE]}
    \cup [entryExists : {FALSE}, hasPackageJson : {TRUE}, hasBuildScript : BOOLEAN]
    \cup {[entryExists |-> FALSE, hasPackageJson |-> FALSE, hasBuildScript |-> FALSE]}

NoAttempt == [headless |-> "none", profile |-> "none", idx |-> 0, outcome |-> "none", error |-> NoError]
NoCompletion == [kind |-> "none", error |-> NoError]
Throw(error) == [kind |-> "throw", error |-> error]
NoResult == [status |-> "none", frames |-> <<>>, error |-> NoError]
EmptyDir == [p \in {} |-> "none"]
NoLog ==
    [events |-> <<>>, caught |-> <<>>, pageErrors |-> <<>>, consoleErrors |-> <<>>,
     servers |-> 0, entryUrl |-> NoUrl, navigated |-> NoUrl, replaced |-> {}]
\* an error caught and not rethrown is logged; the log keeps where it was caught
Caught(kind, error) == [kind |-> kind, origin |-> error.origin]

headless == headlessPreferences[index]
launchProfiles == buildLaunchProfiles(headless)
profile == launchProfiles[profileIdx]

RenderIdle ==
    /\ options = [totalFrames |-> 0, entry |-> "remote", fps |-> DefaultFrameRate]
    /\ env = [platform |-> "linux", VIS_HEADLESS |-> "unset", entryExists |-> TRUE,
              hasPackageJson |-> TRUE, hasBuildScript |-> TRUE, closeMayReject |-> FALSE, page |-> QuietPage]
    /\ pc = "idle"
    /\ headlessPreferences = <<>> /\ index = 0 /\ profileIdx = 0
    /\ frame = 0 /\ frames = <<>>
    /\ pending = NoCompletion
    /\ browser = "null" /\ staticServer = "null"
    /\ lastError = NoError /\ result = NoResult
    /\ disk = EmptyDir
    /\ launches = 0 /\ attempts = <<>> /\ previous = NoAttempt /\ modeFailures = <<>>
    /\ nativeFailed = FALSE
    /\ openBrowsers = 0 /\ openServers = 0 /\ builds = 0
    /\ placeholderTaken = FALSE
    /\ log = NoLog

\* every value of VIS_HEADLESS the code tells apart, in both letter cases,
\* the empty string and a value it does not know
AllHeadlessEnvValues ==
    HeadlessEnvValues \cup {"new", "New", "SHELL", "FALSE", "", "chrome"}

FrameRates == {1, 7, 24, DefaultFrameRate}
DefaultInputs ==
    [headless |-> HeadlessEnvValues, fps |-> {DefaultFrameRate}, closeMayReject |-> {FALSE},
     pages |-> {QuietPage}]

RenderInitFrom(inputs) ==
    /\ \E n \in 0..MaxFrames, pf \in Platforms, h \in inputs.headless, w \in Workspaces,
          e \in {"remote", "local"}, fps \in inputs.fps, cr \in inputs.closeMayReject,
          page \in inputs.pages :
          /\ e = "remote" => w.entryExists      \* the workspace matters to local entries only
          /\ options = [totalFrames |-> n, entry |-> e, fps |-> fps]
          /\ env = [platform |-> pf, VIS_HEADLESS |-> h, entryExists |-> w.entryExists,
                    hasPackageJson |-> w.hasPackageJson, hasBuildScript |-> w.hasBuildScript,
                    closeMayReject |-> cr, page |-> page]
    /\ pc = "ensureHtmlEntry"
    /\ headlessPreferences = <<>> /\ index = 0 /\ profileIdx = 0
    /\ frame = 0 /\ frames = <<>>
    /\ pending = NoCompletion
    /\ browser = "null" /\ staticServer = "null"
    /\ lastError = NoError /\ result = NoResult
    /\ disk = EmptyDir
    /\ launches = 0 /\ attempts = <<>> /\ previous = NoAttempt /\ modeFailures = <<>>
    /\ nativeFailed = FALSE
    /\ openBrowsers = 0 /\ openServers = 0 /\ builds = 0
    /\ placeholderTaken = FALSE
    /\ log = NoLog

RenderInit == RenderInitFrom(DefaultInputs)

observations == <<launches, attempts, previous, modeFailures, nativeFailed, openBrowsers,
                  openServers, builds, placeholderTaken, log>>

\* renderDeterministicFrames throws to its caller
Rejects(error) ==
    /\ pc' = "done"
    /\ result' = [status |-> "thrown", frames |-> <<>>, error |-> error]

\* renderDeterministicFrames returns to its caller
Resolves(value) ==
    /\ pc' = "done"
    /\ result' = [status |-> "returned", frames |-> value, error |-> NoError]

\* entry: await ensureHtmlEntry(options.entry), then resolveHeadlessPreference()
EntryReady ==
    /\ headlessPreferences' = resolveHeadlessPreference(env.platform, env.VIS_HEADLESS)
    /\ index' = 1
    /\ pc' = "renderWithHeadless"
    /\ UNCHANGED result

CanBuildWithPackageJson(environment) == environment.hasPackageJson
\* package.json exists and declares scripts.build
CanBuild(environment) == environment.hasPackageJson /\ environment.hasBuildScript

EnsureHtmlEntry ==
    /\ pc = "ensureHtmlEntry"
    /\ \/ /\ options.entry = "remote" \/ env.entryExists
          /\ EntryReady
          /\ UNCHANGED <<env, builds>>
       \/ /\ options.entry = "local" /\ ~env.entryExists
          /\ ~CanBuild(env)
          /\ Rejects(NewError({}, 0))
          /\ UNCHANGED <<env, builds, headlessPreferences, index>>
       \/ /\ options.entry = "local" /\ ~env.entryExists
          /\ CanBuild(env)
          /\ builds' = builds + 1
          /\ \/ /\ env' = [env EXCEPT !.entryExists = TRUE]   \* the build wrote the entry
                /\ EntryReady
             \/ /\ Rejects(NewError({}, 0)) \* build failed, or no entry after it
                /\ UNCHANGED <<env, headlessPreferences, index>>
    /\ UNCHANGED nonRenderVars
    /\ UNCHANGED <<log, options, profileIdx, frame, frames, pending, browser, staticServer,
                   lastError, disk, launches, attempts, previous, modeFailures, nativeFailed,
                   openBrowsers, openServers, placeholderTaken>>

\* renderWithHeadless up to its try block: mkdirp, createStaticEntryServer
StartHeadlessAttempt ==
    /\ pc = "renderWithHeadless"
    /\ \/ /\ options.entry = "remote"
          /\ staticServer' = "null"
          /\ log' = [log EXCEPT !.entryUrl = entryUrlOf(NoUrl, options.entry)]
          /\ profileIdx' = 1 /\ pc' = "launch"
          /\ UNCHANGED <<pending, openServers>>
       \/ /\ options.entry = "local"
          /\ staticServer' = "listening"
          /\ openServers' = openServers + 1
          /\ log' = [log EXCEPT !.servers = @ + 1,
                                !.entryUrl = entryUrlOf(ServerUrl(log.servers + 1), options.entry)]
          /\ profileIdx' = 1 /\ pc' = "launch"
          /\ UNCHANGED pending
       \/ /\ options.entry = "local"          \* listen failed, or no address (server closed again)
          /\ pending' = Throw(NewError({}, 0))
          /\ pc' = "modeCatch"
          /\ UNCHANGED <<staticServer, profileIdx, openServers, log>>
    /\ UNCHANGED nonRenderVars
    /\ UNCHANGED <<options, env, headlessPreferences, index, frame, frames, browser,
                   lastError, result, disk, launches, attempts, previous, modeFailures, nativeFailed,
                   openBrowsers, builds, placeholderTaken>>

\* a step inside renderWithProfile's try block rejects
StepRejects(attempt) ==
    \E c \in SUBSET ErrClasses :
       /\ pending' = Throw(NewError(c, attempt))
       /\ nativeFailed' = (nativeFailed \/ "native" \in c)
       /\ pc' = "closeBrowser"

LaunchChromium ==
    /\ pc = "launch"
    /\ launches' = launches + 1
    /\ attempts' = Append(attempts, <<headless, profile.description>>)
    /\ frame' = 0 /\ frames' = <<>>
    /\ log' = [log EXCEPT !.events = <<>>, !.pageErrors = <<>>, !.consoleErrors = <<>>,
                          !.navigated = NoUrl]
    /\ \/ /\ browser' = "open"
          /\ openBrowsers' = openBrowsers + 1
          /\ pc' = "newPage"
          /\ UNCHANGED <<pending, nativeFailed>>
       \/ /\ browser' = "null"
          /\ StepRejects(launches + 1)
          /\ UNCHANGED openBrowsers
    /\ UNCHANGED nonRenderVars
    /\ UNCHANGED <<options, env, headlessPreferences, index, profileIdx, staticServer,
                   lastError, result, disk, previous, modeFailures, openServers, builds, placeholderTaken>>

\* browser.newPage(), page.setViewport and the page timeouts
OpenPage ==
    /\ pc = "newPage"
    /\ \/ pc' = "goto" /\ UNCHANGED <<pending, nativeFailed>>
       \/ StepRejects(launches)
    /\ UNCHANGED nonRenderVars
    /\ UNCHANGED <<log, options, env, headlessPreferences, index, profileIdx, frame, frames,
                   browser, staticServer, lastError, result, disk, launches, attempts,
                   previous, modeFailures, openBrowsers, openServers, builds, placeholderTaken>>

\* page.goto(entryUrl, { waitUntil: "networkidle0" })
Navigate ==
    /\ pc = "goto"
    /\ \/ pc' = "waitForFunction" /\ UNCHANGED <<pending, nativeFailed>>
       \/ StepRejects(launches)
    /\ log' = [log EXCEPT !.pageErrors = env.page.pageErrors,
                          !.consoleErrors = env.page.consoleErrors,
                          !.navigated = log.entryUrl]
    /\ UNCHANGED nonRenderVars
    /\ UNCHANGED <<options, env, headlessPreferences, index, profileIdx, frame, frames,
                   browser, staticServer, lastError, result, disk, launches, attempts,
                   previous, modeFailures, openBrowsers, openServers, builds, placeholderTaken>>

\* page.waitForFunction(__vis_ready || __vis_renderFrame is a function)
WaitForReadiness ==
    /\ pc = "waitForFunction"
    /\ \/ pc' = "frameLoop" /\ UNCHANGED <<pending, nativeFailed>>
       \/ \E timeoutCls, cls \in SUBSET ErrClasses :
            LET thrown == ReadinessFailure(NewError(timeoutCls, launches), log.pageErrors,
                                           log.consoleErrors, cls)
            IN /\ thrown.origin = "step" => cls = timeoutCls
               /\ thrown.origin = "diagnostics" => timeoutCls = {}
               /\ pending' = Throw(thrown)
               /\ nativeFailed' = (nativeFailed \/ "native" \in thrown.cls)
               /\ pc' = "closeBrowser"
    /\ UNCHANGED nonRenderVars
    /\ UNCHANGED <<log, options, env, headlessPreferences, index, profileIdx, frame, frames,
                   browser, staticServer, lastError, result, disk, launches, attempts,
                   previous, modeFailures, openBrowsers, openServers, builds, placeholderTaken>>

\* page.evaluate(__vis_renderFrame, time) for the current frame
RenderFrame ==
    /\ pc = "frameLoop"
    /\ frame < options.totalFrames
    /\ LET time == frameTime(frame, options.fps)
           called == Append(log.events, [op |-> "render", frame |-> frame, time |-> time])
       IN \/ /\ pc' = "screenshot"
             /\ log' = [log EXCEPT !.events = Append(called, [op |-> "rendered", frame |-> frame])]
             /\ UNCHANGED <<pending, nativeFailed>>
          \/ /\ StepRejects(launches)
             /\ log' = [log EXCEPT !.events = called]
    /\ UNCHANGED nonRenderVars
    /\ UNCHANGED <<options, env, headlessPreferences, index, profileIdx, frame, frames,
                   browser, staticServer, lastError, result, disk, launches, attempts,
                   previous, modeFailures, openBrowsers, openServers, builds, placeholderTaken>>

\* page.screenshot({ path: outPath }); frames.push({ frame, path: outPath })
Screenshot ==
    /\ pc = "screenshot"
    /\ LET called == Append(log.events, [op |-> "screenshot", frame |-> frame])
       IN \/ /\ disk' = WriteFile(disk, FramePath(frame), "browser")
             /\ frames' = Append(frames, FrameRecord(frame))
             /\ frame' = frame + 1
             /\ pc' = "frameLoop"
             /\ log' = [log EXCEPT !.events = called \o <<[op |-> "captured", frame |-> frame],
                                                          [op |-> "record", frame |-> frame]>>]
             /\ UNCHANGED <<pending, nativeFailed>>
          \/ /\ StepRejects(launches)
             /\ log' = [log EXCEPT !.events = called]
             /\ UNCHANGED <<disk, frames, frame>>
    /\ UNCHANGED nonRenderVars
    /\ UNCHANGED <<options, env, headlessPreferences, index, profileIdx, browser,
                   staticServer, lastError, result, launches, attempts, previous, modeFailures,
                   openBrowsers, openServers, builds, placeholderTaken>>

\* the frame loop ends: return results
FramesRendered ==
    /\ pc = "frameLoop"
    /\ ~(frame < options.totalFrames)
    /\ pending' = [kind |-> "return", error |-> NoError]
    /\ pc' = "closeBrowser"
    /\ UNCHANGED nonRenderVars
    /\ UNCHANGED <<options, env, headlessPreferences, index, profileIdx, frame, frames,
                   browser, staticServer, lastError, result, disk, observations>>

\* the arrays and the page of a profile attempt go out of scope with it
AttemptOver(l) ==
    [l EXCEPT !.events = <<>>, !.pageErrors = <<>>, !.consoleErrors = <<>>, !.navigated = NoUrl]

\* renderWithProfile's finally block; a rejected close() is logged and dropped
CloseBrowser ==
    /\ pc = "closeBrowser"
    /\ IF ClosesBrowser(browser, pending.kind)
       THEN /\ browser' = "closed" /\ openBrowsers' = openBrowsers - 1
            /\ \E rejected \in {FALSE, env.closeMayReject} :
                  IF rejected
                  THEN /\ pending' = CompletionAfterClose(pending, CloseError(launches))
                       /\ log' = [AttemptOver(log) EXCEPT
                                             !.caught = Append(@, Caught("browserClose", CloseError(launches)))]
                  ELSE /\ pending' = pending
                       /\ log' = AttemptOver(log)
       ELSE /\ log' = AttemptOver(log)
            /\ UNCHANGED <<browser, openBrowsers, pending>>
    /\ previous' = [headless |-> headless, profile |-> profile.description, idx |-> profileIdx,
                    outcome |-> IF pending'.kind = "return" THEN "ok" ELSE "failed",
                    error |-> pending'.error]
    /\ pc' = IF pending'.kind = "return" THEN "closeServer" ELSE "profileCatch"
    /\ UNCHANGED nonRenderVars
    /\ UNCHANGED <<options, env, headlessPreferences, index, profileIdx, frame, frames,
                   staticServer, lastError, result, disk, launches, attempts,
                   modeFailures, nativeFailed, openServers, builds, placeholderTaken>>

\* the catch block of renderWithHeadless's profile loop
ProfileCatch ==
    /\ pc = "profileCatch"
    /\ LET annotated == annotateLaunchProfileFailure(pending.error, profile, headless)
       IN IF AdvancesProfile(annotated, profileIdx, launchProfiles)
          THEN /\ profileIdx' = profileIdx + 1
               /\ pending' = NoCompletion
               /\ log' = [log EXCEPT !.caught = Append(@, Caught("profileRetry", annotated))]
               /\ pc' = "launch"
          ELSE /\ pending' = Throw(annotated)
               /\ pc' = "closeServer"
               /\ UNCHANGED <<profileIdx, log>>
    /\ UNCHANGED nonRenderVars
    /\ UNCHANGED <<options, env, headlessPreferences, index, frame, frames, browser,
                   staticServer, lastError, result, disk, launches, attempts, previous,
                   modeFailures, nativeFailed, openBrowsers, openServers, builds, placeholderTaken>>

\* renderWithHeadless's finally block; a rejected close() is logged and dropped
CloseServer ==
    /\ pc = "closeServer"
    /\ IF ClosesServer(staticServer, pending.kind)
       THEN /\ staticServer' = "closed" /\ openServers' = openServers - 1
            /\ \E rejected \in {FALSE, env.closeMayReject} :
                  IF rejected
                  THEN /\ pending' = CompletionAfterClose(pending, CloseError(launches))
                       /\ log' = [log EXCEPT !.caught = Append(@, Caught("serverClose", CloseError(launches)))]
                  ELSE UNCHANGED <<pending, log>>
       ELSE UNCHANGED <<staticServer, openServers, pending, log>>
    /\ IF pending'.kind = "return"
       THEN Resolves(frames)
       ELSE pc' = "modeCatch" /\ UNCHANGED result
    /\ UNCHANGED nonRenderVars
    /\ UNCHANGED <<options, env, headlessPreferences, index, profileIdx, frame, frames,
                   browser, lastError, disk, launches, attempts, previous, modeFailures,
                   nativeFailed, openBrowsers, builds, placeholderTaken>>

\* the catch block of renderDeterministicFrames's mode loop, and the throw after it
ModeCatch ==
    /\ pc = "modeCatch"
    /\ LET failure == pending.error
       IN /\ lastError' = failure
          /\ modeFailures' = Append(modeFailures, [headless |-> headless, error |-> failure])
          /\ IF shouldFallbackToPlaceholderFrames(failure)
             THEN pc' = "outerCatch" /\ UNCHANGED <<index, pending, log>>
             ELSE IF RetriesNextMode(failure, headless, index, headlessPreferences)
             THEN /\ index' = index + 1
                  /\ pending' = NoCompletion
                  /\ log' = [log EXCEPT !.caught = Append(@, Caught("modeRetry", failure))]
                  /\ pc' = "renderWithHeadless"
             ELSE pc' = "outerCatch" /\ UNCHANGED <<index, pending, log>>
    /\ UNCHANGED nonRenderVars
    /\ UNCHANGED <<options, env, headlessPreferences, profileIdx, frame, frames, browser,
                   staticServer, result, disk, launches, attempts, previous, nativeFailed,
                   openBrowsers, openServers, builds, placeholderTaken>>

\* the outer catch of renderDeterministicFrames
OuterCatch ==
    /\ pc = "outerCatch"
    /\ IF shouldFallbackToPlaceholderFrames(pending.error)
       THEN /\ placeholderTaken' = TRUE
            /\ frames' = <<>> /\ frame' = 0
            /\ log' = [log EXCEPT !.caught = Append(@, Caught("placeholder", pending.error))]
            /\ pc' = "placeholder"
            /\ UNCHANGED result
       ELSE /\ Rejects(ThrownAfterModeLoop(lastError))
            /\ UNCHANGED <<placeholderTaken, frames, frame, log>>
    /\ UNCHANGED nonRenderVars
    /\ UNCHANGED <<options, env, headlessPreferences, index, profileIdx, pending, browser,
                   staticServer, lastError, disk, launches, attempts, previous, modeFailures,
                   nativeFailed, openBrowsers, openServers, builds>>

\* renderPlaceholderFrames: nothing for totalFrames <= 0, else write frame 0
PlaceholderBase ==
    /\ pc = "placeholder"
    /\ IF options.totalFrames <= 0
       THEN /\ Resolves(frames)
            /\ UNCHANGED <<disk, frames, frame, log>>
       ELSE /\ disk' = WriteFile(disk, PlaceholderBasePath, "placeholder")
            /\ frames' = Append(frames, [frame |-> 0, path |-> PlaceholderBasePath])
            /\ frame' = PlaceholderFirstCopy(disk)
            /\ log' = [log EXCEPT !.replaced = @ \cup BrowserFileAt(disk, PlaceholderBasePath)]
            /\ pc' = "placeholderCopy"
            /\ UNCHANGED result
    /\ UNCHANGED nonRenderVars
    /\ UNCHANGED <<options, env, headlessPreferences, index, profileIdx, pending, browser,
                   staticServer, lastError, launches, attempts, previous, modeFailures,
                   nativeFailed, openBrowsers, openServers, builds, placeholderTaken>>

\* renderPlaceholderFrames: copyFile(basePath, outPath) for frames 1..totalFrames-1
PlaceholderCopy ==
    /\ pc = "placeholderCopy"
    /\ frame < options.totalFrames
    /\ disk' = copyFile(disk, PlaceholderBasePath, FramePath(frame))
    /\ frames' = Append(frames, FrameRecord(frame))
    /\ frame' = frame + 1
    /\ log' = [log EXCEPT !.replaced = @ \cup BrowserFileAt(disk, FramePath(frame))]
    /\ UNCHANGED nonRenderVars
    /\ UNCHANGED <<options, env, pc, headlessPreferences, index, profileIdx, pending,
                   browser, staticServer, lastError, result, launches, attempts, previous,
                   modeFailures, nativeFailed, openBrowsers, openServers, builds, placeholderTaken>>

PlaceholderDone ==
    /\ pc = "placeholderCopy"
    /\ ~(frame < options.totalFrames)
    /\ Resolves(frames)
    /\ UNCHANGED nonRenderVars
    /\ UNCHANGED <<options, env, headlessPreferences, index, profileIdx, frame, frames,
                   pending, browser, staticServer, lastError, disk, observations>>

RenderNext ==
    \/ EnsureHtmlEntry
    \/ StartHeadlessAttempt
    \/ LaunchChromium
    \/ OpenPage
    \/ Navigate
    \/ WaitForReadiness
    \/ RenderFrame
    \/ Screenshot
    \/ FramesRendered
    \/ CloseBrowser
    \/ ProfileCatch
    \/ CloseServer
    \/ ModeCatch
    \/ OuterCatch
    \/ PlaceholderBase
    \/ PlaceholderCopy
    \/ PlaceholderDone

---------------------------------------------------------------------------
(* The static entry server: the request handler of createStaticEntryServer. *)
(* A path is a sequence of segments and a segment a sequence of characters; *)
(* a request URL is given by the segments that follow its leading "/".      *)

MaxSegUnits == 4

Empty == <<>>
Dot == <<".">>
DotDot == <<".", ".">>
DigitChars == {"1"}

RECURSIVE Flatten(_)
Flatten(ss) == IF ss = <<>> THEN <<>> ELSE Head(ss) \o Flatten(Tail(ss))

\* last segments of the requests: strings built from name characters, digits,
\* colons and ":<digit>" groups
SegUnits == {<<"a">>, <<"1">>, <<":">>, <<":", "1">>}
SegStrings == {Flatten(us) : us \in UNION {[1..n -> SegUnits] : n \in 0..MaxSegUnits}}
Methods == {"GET", "HEAD", "POST"}
LastSegments == SegStrings \cup {DotDot, Dot}
\* "/<l>", "/<d>/<l>" and "/<l>/"; the URL never starts with "//", which the
\* URL parser would read as a host
RequestUrls ==
    {d \o <<l>> : d \in {<<>>, <<DotDot>>, <<Dot>>, <<<<"a">>>>}, l \in LastSegments}
        \cup {<<l, Empty>> : l \in LastSegments \ {Empty}}

\* resolve(entryPath), dirname(resolvedEntry)
rootDirResolved == << <<"srv">>, <<"dist">> >>
resolvedEntry == rootDirResolved \o << <<"index.html">> >>

RECURSIVE UrlPath(_, _, _)
UrlPath(raw, i, out) ==
    IF i > Len(raw) THEN out
    ELSE LET seg == raw[i]
             atEnd == IF i = Len(raw) THEN <<Empty>> ELSE <<>>
         IN IF seg = DotDot
            THEN UrlPath(raw, i + 1,
                         (IF out = <<>> THEN out ELSE SubSeq(out, 1, Len(out) - 1)) \o atEnd)
            ELSE IF seg = Dot
            THEN UrlPath(raw, i + 1, out \o atEnd)
            ELSE UrlPath(raw, i + 1, Append(out, seg))

\* new URL(request.url, "http://localhost").pathname, split at "/": the URL
\* parser drops "." segments and resolves ".." segments against the segments
\* before them
UrlPathnameSegments(raw) == <<Empty>> \o UrlPath(raw, 1, <<>>)

RECURSIVE SafeSegments(_, _)
SafeSegments(segments, safe) ==
    IF segments = <<>> THEN [forbidden |-> FALSE, path |-> safe]
    ELSE LET segment == Head(segments)
         IN IF segment = Empty \/ segment = Dot THEN SafeSegments(Tail(segments), safe)
            ELSE IF segment = DotDot THEN [forbidden |-> TRUE, path |-> <<>>]
            ELSE SafeSegments(Tail(segments), Append(safe, segment))

\* sanitizePathname: null (forbidden) for a ".." segment, else the segments
\* that are neither empty nor "."
sanitizePathname(segments) == SafeSegments(segments, <<>>)

\* ^:\d+$
IsLineGroup(t) ==
    /\ Len(t) >= 2
    /\ t[1] = ":"
    /\ \A k \in 2..Len(t) : t[k] \in DigitChars

\* ^(:\d+){1,2}$
IsLineColumnSuffix(t) ==
    \/ IsLineGroup(t)
    \/ \E k \in 1..Len(t) : IsLineGroup(SubSeq(t, 1, k)) /\ IsLineGroup(SubSeq(t, k + 1, Len(t)))

\* the prefixes p of `last` with last = p suffix, suffix matching (:\d+){1,2}
SuffixSplits(last) == {k \in 0..Len(last) : IsLineColumnSuffix(SubSeq(last, k + 1, Len(last)))}

Minimum(S) == CHOOSE k \in S : \A j \in S : k <= j
Maximum(S) == CHOOSE k \in S : \A j \in S : k >= j

ReplaceLast(pathname, k) ==
    LET last == pathname[Len(pathname)]
    IN IF k = 0 THEN pathname       \* match[1] is empty: nothing is stripped
       ELSE [pathname EXCEPT ![Len(pathname)] = SubSeq(last, 1, k)]

stripGreedyPrefix(pathname) ==
    IF pathname = <<>> THEN pathname
    ELSE LET splits == SuffixSplits(pathname[Len(pathname)])
         IN IF splits = {} THEN pathname ELSE ReplaceLast(pathname, Maximum(splits))
\* stripLineAndColumnSuffix: /^(.*?)(:\d+){1,2}$/ on the last segment; the lazy
\* group takes the shortest prefix that leaves one or two ":digits" groups
stripLineAndColumnSuffix(pathname) ==
    IF pathname = <<>> THEN pathname
    ELSE LET splits == SuffixSplits(pathname[Len(pathname)])
         IN IF splits = {} THEN pathname ELSE ReplaceLast(pathname, Minimum(splits))

RECURSIVE ResolveSegments(_, _)
ResolveSegments(base, segments) ==
    IF segments = <<>> THEN base
    ELSE LET segment == Head(segments)
         IN IF segment = Empty \/ segment = Dot THEN ResolveSegments(base, Tail(segments))
            ELSE IF segment = DotDot
            THEN ResolveSegments(IF base = <<>> THEN base ELSE SubSeq(base, 1, Len(base) - 1),
                                 Tail(segments))
            ELSE ResolveSegments(Append(base, segment), Tail(segments))

\* path.resolve(base, relative)
resolve(base, relative) == ResolveSegments(base, relative)

IsPrefix(a, b) == Len(a) <= Len(b) /\ SubSeq(b, 1, Len(a)) = a

\* normalizedCandidate === rootDirResolved || startsWith(rootDirWithSep) || === resolvedEntry
isWithinRoot(normalizedCandidate) ==
    \/ normalizedCandidate = rootDirResolved
    \/ IsPrefix(rootDirResolved, normalizedCandidate) /\ Len(normalizedCandidate) > Len(rootDirResolved)
    \/ normalizedCandidate = resolvedEntry

\* what stat(filePath), the stat of index.html inside a directory, and the
\* read stream of a GET can turn out to be
LookupOutcomes ==
    {"file", "directory", "directoryWithoutIndex", "ENOENT", "EACCES",
     "fileUnreadable", "fileReadBreaks"}

ServerIdle ==
    /\ request = [method |-> "GET", url |-> <<Empty>>]
    /\ srv = [phase |-> "idle", sanitized |-> <<>>, attemptSanitized |-> <<>>, visited |-> {},
              tried |-> <<>>, accessed |-> {}, status |-> 0, ends |-> 0, destroyed |-> FALSE]

\* the handler of a request the server has just received
Received ==
    [phase |-> "received", sanitized |-> <<>>, attemptSanitized |-> <<>>, visited |-> {},
     tried |-> <<>>, accessed |-> {}, status |-> 0, ends |-> 0, destroyed |-> FALSE]

ServerInit ==
    /\ \E method \in Methods, url \in RequestUrls : request = [method |-> method, url |-> url]
    /\ srv = Received

\* response.statusCode = code; response.end(...)
Respond(s, code) == [s EXCEPT !.phase = "done", !.status = code, !.ends = @ + 1]

MethodAlwaysAllowed(method) == TRUE
\* !(method !== "GET" && method !== "HEAD")
MethodAllowed(method) == method \in {"GET", "HEAD"}

\* the synchronous part of the handler: method check, URL parsing, sanitizePathname
HandleRequest(s, req) ==
    LET sanitized == sanitizePathname(UrlPathnameSegments(req.url))
    IN IF ~MethodAllowed(req.method) THEN Respond(s, 405)
       ELSE IF sanitized.forbidden THEN Respond(s, 403)
       ELSE [s EXCEPT !.phase = "lookup", !.sanitized = sanitized.path,
                      !.attemptSanitized = sanitized.path]

ReceiveRequest ==
    /\ srv.phase = "received"
    /\ srv' = HandleRequest(srv, request)
    /\ UNCHANGED <<request, renderVars, compareVars, toolVars>>

NotFoundStatus(pathname) == IF pathname = <<>> THEN 500 ELSE 404

\* one iteration of the lookup loop of the asynchronous part of the handler
LookupStep(s, req, outcome) ==
    LET attempt == s.attemptSanitized
        candidatePath == IF attempt = <<>> THEN resolvedEntry
                         ELSE resolve(rootDirResolved, attempt)
        normalizedCandidate == resolve(candidatePath, <<>>)
        filePath == IF attempt = <<>> THEN resolvedEntry ELSE normalizedCandidate
        indexPath == Append(filePath, <<"index.html">>)
        isDirectory == outcome \in {"directory", "directoryWithoutIndex"}
        served == IF isDirectory THEN indexPath ELSE filePath
        statted == IF isDirectory THEN {filePath, indexPath} ELSE {filePath}
        looked == [s EXCEPT !.visited = @ \cup {attempt},
                            !.tried = Append(@, attempt),
                            !.accessed = @ \cup statted]
        stripped == stripLineAndColumnSuffix(attempt)
    IN IF attempt \in s.visited THEN Respond(s, NotFoundStatus(s.sanitized))
       ELSE IF ~isWithinRoot(normalizedCandidate)
       THEN Respond([s EXCEPT !.visited = @ \cup {attempt}], 403)
       ELSE IF outcome \in {"file", "directory", "fileUnreadable", "fileReadBreaks"}
       THEN IF req.method = "HEAD" \/ outcome \in {"file", "directory"}
            THEN Respond(looked, 200)
            ELSE IF outcome = "fileUnreadable"
            THEN Respond(looked, 500)        \* stream error before the headers are sent
            ELSE [looked EXCEPT !.phase = "done", !.status = 200, !.destroyed = TRUE]
       ELSE IF outcome \in {"ENOENT", "directoryWithoutIndex"} /\ stripped # attempt
       THEN [looked EXCEPT !.attemptSanitized = stripped]
       ELSE Respond(looked, NotFoundStatus(attempt))

Lookup ==
    /\ srv.phase = "lookup"
    /\ \E outcome \in LookupOutcomes : srv' = LookupStep(srv, request, outcome)
    /\ UNCHANGED <<request, renderVars, compareVars, toolVars>>

ServerNext == ReceiveRequest \/ Lookup

---------------------------------------------------------------------------
(* The numbers of the summary of compareFrameSequences. A JavaScript       *)
(* number is an IEEE 754 double: zero, or a significand of SignificandBits *)
(* bits (most significant first, the first one 1) and an exponent, of      *)
(* value 1.f * 2^exp. Every operation rounds its exact result to the       *)
(* nearest double, ties to the even significand.                           *)

SignificandBits == 53
\* bits computed below the last bit of a dividend before a quotient is rounded
QuotientBits == SignificandBits + 11
MaxSummaryFrames == 3

Zeros(n) == [i \in 1..n |-> 0]

\* the bits of a natural number without its leading zeros
StripZeros(bits) ==
    LET ones == {i \in 1..Len(bits) : bits[i] = 1}
    IN IF ones = {} THEN <<>>
       ELSE SubSeq(bits, CHOOSE i \in ones : \A j \in ones : i <= j, Len(bits))

RECURSIVE NatBits(_)
NatBits(n) == IF n = 0 THEN <<>> ELSE Append(NatBits(n \div 2), n % 2)

\* numbers of many bits are worked on eight bits at a time
ByteBase == 2^8
BytePadded(bits) == Zeros((8 - (Len(bits) % 8)) % 8) \o bits
ByteAt(bits, i) ==
    128 * bits[i] + 64 * bits[i + 1] + 32 * bits[i + 2] + 16 * bits[i + 3]
        + 8 * bits[i + 4] + 4 * bits[i + 5] + 2 * bits[i + 6] + bits[i + 7]
ByteBits(v) == [j \in 1..8 |-> (v \div 2^(8 - j)) % 2]

\* the bytes of a and b from the last one up to the one at i, added
RECURSIVE AddLoop(_, _, _, _)
AddLoop(a, b, i, carry) ==
    IF i < 1 THEN (IF carry = 1 THEN <<1>> ELSE <<>>)
    ELSE LET t == ByteAt(a, i) + ByteAt(b, i) + carry
         IN AddLoop(a, b, i - 8, t \div ByteBase) \o ByteBits(t % ByteBase)

\* the sum of two natural numbers given by their bits
AddBits(a, b) ==
    LET n == IF Len(a) >= Len(b) THEN Len(a) ELSE Len(b)
        x == BytePadded(Zeros(n - Len(a)) \o a)
        y == BytePadded(Zeros(n - Len(b)) \o b)
    IN StripZeros(AddLoop(x, y, Len(x) - 7, 0))

\* long division of the number given by bits by the small number n, from the
\* byte at i on, r being the remainder so far
RECURSIVE DivLoop(_, _, _, _)
DivLoop(bits, n, i, r) ==
    IF i > Len(bits) THEN [quotient |-> <<>>, remainder |-> r]
    ELSE LET t == ByteBase * r + ByteAt(bits, i)
             rest == DivLoop(bits, n, i + 8, t % n)
         IN [quotient |-> ByteBits(t \div n) \o rest.quotient, remainder |-> rest.remainder]

DivideBits(bits, n) == DivLoop(BytePadded(bits), n, 1, 0)

DoubleZero == [zero |-> TRUE, exp |-> 0, sig |-> <<>>]

\* the double nearest to bits * 2^scale (plus less than 2^scale when sticky)
RoundToDouble(bits, scale, sticky) ==
    LET b == StripZeros(bits)
        n == Len(b)
    IN IF n = 0 THEN DoubleZero
       ELSE IF n <= SignificandBits
       THEN [zero |-> FALSE, exp |-> scale + n - 1, sig |-> b \o Zeros(SignificandBits - n)]
       ELSE LET kept == SubSeq(b, 1, SignificandBits)
                guard == b[SignificandBits + 1]
                rest == sticky \/ \E i \in (SignificandBits + 2)..n : b[i] = 1
                up == guard = 1 /\ (rest \/ kept[SignificandBits] = 1)
                rounded == IF up THEN AddBits(kept, <<1>>) ELSE kept
            IN IF Len(rounded) > SignificandBits
               THEN [zero |-> FALSE, exp |-> scale + n, sig |-> SubSeq(rounded, 1, SignificandBits)]
               ELSE [zero |-> FALSE, exp |-> scale + n - 1, sig |-> rounded]

\* p / q of two small non-negative integers, q > 0
DoubleOfQuotient(p, q) ==
    IF p = 0 THEN DoubleZero
    ELSE LET d == DivideBits(NatBits(p) \o Zeros(QuotientBits), q)
         IN RoundToDouble(d.quotient, 0 - QuotientBits, d.remainder # 0)

\* x + y of two doubles that are not negative
DoubleAdd(x, y) ==
    IF x.zero THEN y
    ELSE IF y.zero THEN x
    ELSE LET hi == IF x.exp >= y.exp THEN x ELSE y
             lo == IF x.exp >= y.exp THEN y ELSE x
         IN RoundToDouble(AddBits(hi.sig \o Zeros(hi.exp - lo.exp), lo.sig),
                          lo.exp - (SignificandBits - 1), FALSE)

\* x / n of a double that is not negative and a small positive integer
DoubleDivide(x, n) ==
    IF x.zero THEN DoubleZero
    ELSE LET d == DivideBits(x.sig \o Zeros(QuotientBits), n)
         IN RoundToDouble(d.quotient, x.exp - (SignificandBits - 1) - QuotientBits, d.remainder # 0)

BitsLeq(a, b) ==
    \/ a = b
    \/ \E k \in 1..Len(a) : a[k] < b[k] /\ \A j \in 1..(k - 1) : a[j] = b[j]

\* x <= y of two doubles that are not negative
DoubleLeq(x, y) ==
    \/ x.zero
    \/ /\ ~y.zero
       /\ \/ x.exp < y.exp
          \/ x.exp = y.exp /\ BitsLeq(x.sig, y.sig)

\* diffPixels / totalPixels
mismatchRatioOf(diffPixels, totalPixels) == DoubleOfQuotient(diffPixels, totalPixels)

\* diffs.reduce((sum, diff) => sum + diff.mismatchRatio, 0), from the i-th frame on
RECURSIVE ReduceSum(_, _, _)
ReduceSum(ratios, i, sum) ==
    IF i > Len(ratios) THEN sum ELSE ReduceSum(ratios, i + 1, DoubleAdd(sum, ratios[i]))

MinOfRatios(ratios) ==
    LET values == {ratios[i] : i \in 1..Len(ratios)}
    IN CHOOSE r \in values : \A other \in values : DoubleLeq(r, other)
\* Math.max(...diffs.map((d) => d.mismatchRatio))
MaxOfRatios(ratios) ==
    LET values == {ratios[i] : i \in 1..Len(ratios)}
    IN CHOOSE r \in values : \A other \in values : DoubleLeq(other, r)

\* totalCompared, maxMismatch and averageMismatch of the frames compared
Summarize(ratios) ==
    LET totalCompared == Len(ratios)
    IN [totalCompared |-> totalCompared,
        ratios |-> ratios,
        maxMismatch |-> IF totalCompared = 0 THEN DoubleZero ELSE MaxOfRatios(ratios),
        averageMismatch |-> IF totalCompared = 0 THEN DoubleZero
                            ELSE DoubleDivide(ReduceSum(ratios, 1, DoubleZero), totalCompared)]

---------------------------------------------------------------------------
(* The frame comparator: collectPngs and compareFrameSequences. A directory *)
(* maps file names to file contents; an image is its width, its height and  *)
(* one value per pixel, two values being further apart than the threshold   *)
(* exactly when they differ.                                                *)

MaxFiles == 2

\* a file that does not exist, and the content of a file that is no PNG image
Absent == [exists |-> FALSE]
NotPng == [exists |-> TRUE]
PngExt == <<".", "p", "n", "g">>
FrameStems == <<"0", "1", "2", "3">>
FrameNames == {<<FrameStems[i]>> \o PngExt : i \in 1..MaxFiles}
UpperName == <<"0", ".", "P", "N", "G">>
TextName == <<"0", ".", "t", "x", "t">>
FileNames == FrameNames \cup {UpperName, TextName}

Images ==
    {[width |-> 1, height |-> 1, data |-> <<0>>], [width |-> 1, height |-> 1, data |-> <<1>>],
     [width |-> 2, height |-> 1, data |-> <<0, 0>>], [width |-> 1, height |-> 2, data |-> <<0, 0>>]}

Directories ==
    {[f \in FileNames |-> IF f \in FrameNames THEN frameFiles[f]
                          ELSE IF f = UpperName THEN upper ELSE NotPng] :
        frameFiles \in [FrameNames -> Images \cup {Absent}],
        upper \in {Absent, [width |-> 1, height |-> 1, data |-> <<0>>]}}

\* UTF-16 code units of the characters of the file names
CodeUnit(c) ==
    CASE c = "-" -> 45 [] c = "." -> 46
      [] c = "0" -> 48 [] c = "1" -> 49 [] c = "2" -> 50 [] c = "3" -> 51 [] c = "4" -> 52
      [] c = "5" -> 53 [] c = "6" -> 54 [] c = "7" -> 55 [] c = "8" -> 56 [] c = "9" -> 57
      [] c = "a" -> 97 [] c = "e" -> 101 [] c = "f" -> 102 [] c = "m" -> 109 [] c = "r" -> 114
      [] c = "G" -> 71 [] c = "N" -> 78 [] c = "P" -> 80
      [] c = "g" -> 103 [] c = "n" -> 110 [] c = "p" -> 112 [] c = "t" -> 116 [] c = "x" -> 120

LowerChar(c) == CASE c = "G" -> "g" [] c = "N" -> "n" [] c = "P" -> "p" [] OTHER -> c
toLowerCase(name) == [i \in 1..Len(name) |-> LowerChar(name[i])]
endsWith(name, suffix) ==
    Len(name) >= Len(suffix) /\ SubSeq(name, Len(name) - Len(suffix) + 1, Len(name)) = suffix

\* the order of Array.prototype.sort() on strings
LexLess(a, b) ==
    \E k \in 1..(Len(a) + 1) :
        /\ \A j \in 1..(k - 1) : j <= Len(b) /\ a[j] = b[j]
        /\ k <= Len(b)
        /\ (k > Len(a) \/ CodeUnit(a[k]) < CodeUnit(b[k]))

RECURSIVE SortNamesDescending(_)
SortNamesDescending(names) ==
    IF names = {} THEN <<>>
    ELSE LET first == CHOOSE n \in names : \A other \in names \ {n} : LexLess(other, n)
         IN <<first>> \o SortNamesDescending(names \ {first})
RECURSIVE SortNames(_)
SortNames(names) ==
    IF names = {} THEN <<>>
    ELSE LET first == CHOOSE n \in names : \A other \in names \ {n} : LexLess(n, other)
         IN <<first>> \o SortNames(names \ {first})

readdir(dir) == {f \in DOMAIN dir : dir[f] # Absent}

\* collectPngs: the names ending in ".png" in any letter case, sorted
collectPngs(dir) == SortNames({file \in readdir(dir) : endsWith(toLowerCase(file), PngExt)})

Range(seq) == {seq[i] : i \in 1..Len(seq)}
Filter(files, keep) == SelectSeq(files, LAMBDA file : file \in keep)

missingInBaselineWrongSet(actualFiles, actualSet, baselineSet) ==
    Filter(actualFiles, Range(actualFiles) \ actualSet)
\* actualFiles.filter((file) => !baselineSet.has(file))
missingInBaselineOf(actualFiles, actualSet, baselineSet) ==
    Filter(actualFiles, Range(actualFiles) \ baselineSet)

SizeMismatchInBoth(baselinePng, actualPng) ==
    baselinePng.width # actualPng.width /\ baselinePng.height # actualPng.height
\* baselinePng.width !== actualPng.width || baselinePng.height !== actualPng.height
SizeMismatch(baselinePng, actualPng) ==
    baselinePng.width # actualPng.width \/ baselinePng.height # actualPng.height

pixelmatchCountsEqual(actualData, baselineData, width, height) ==
    Cardinality({i \in 1..(width * height) :
                    i <= Len(actualData) /\ i <= Len(baselineData) /\ actualData[i] = baselineData[i]})
\* pixelmatch over width * height pixels: the number of pixels that differ
pixelmatchFn(actualData, baselineData, width, height) ==
    Cardinality({i \in 1..(width * height) :
                    i > Len(actualData) \/ i > Len(baselineData) \/ actualData[i] # baselineData[i]})

NoSummary == [returned |-> FALSE]
NoFile == <<>>

NoFailure == [message |-> "none", file |-> NoFile]

WritesDiffOfAnyFrame(diffDir, diffPixels) == diffDir # "undefined"
\* options.diffDir && diffPixels > 0
WritesDiff(diffDir, diffPixels) == diffDir # "undefined" /\ diffPixels > 0

\* the loop over the intersection, from its i-th file on
RECURSIVE CompareLoop(_, _, _, _, _)
CompareLoop(compareOptions, intersection, i, diffs, written) ==
    IF i > Len(intersection)
    THEN [status |-> "completed", error |-> NoFailure, diffs |-> diffs, written |-> written]
    ELSE LET file == intersection[i]
             baselinePng == compareOptions.baselineDir[file]
             actualPng == compareOptions.actualDir[file]
         IN IF baselinePng \notin Images \/ actualPng \notin Images
            THEN [status |-> "thrown", error |-> [message |-> "readPng rejected", file |-> NoFile],
                  diffs |-> diffs, written |-> written]
            ELSE IF SizeMismatch(baselinePng, actualPng)
            THEN [status |-> "thrown", error |-> [message |-> "Frame size mismatch for", file |-> file],
                  diffs |-> diffs, written |-> written]
            ELSE LET diffPixels == pixelmatchFn(actualPng.data, baselinePng.data,
                                                baselinePng.width, baselinePng.height)
                     writesDiff == WritesDiff(compareOptions.diffDir, diffPixels)
                     totalPixels == baselinePng.width * baselinePng.height
                     mismatch == [frame |-> file, diffPixels |-> diffPixels, totalPixels |-> totalPixels,
                                  mismatchRatio |-> mismatchRatioOf(diffPixels, totalPixels),
                                  diffPath |-> IF writesDiff THEN <<compareOptions.diffDir, file>>
                                               ELSE <<>>]
                 IN CompareLoop(compareOptions, intersection, i + 1, Append(diffs, mismatch),
                                IF writesDiff THEN written \cup {<<compareOptions.diffDir, file>>}
                                ELSE written)

\* compareFrameSequences: a thrown error, or the summary; diffs and written
\* record the frames compared and the diff images written before the call ended
compareFrameSequences(compareOptions) ==
    LET actualFiles == collectPngs(compareOptions.actualDir)
        baselineFiles == collectPngs(compareOptions.baselineDir)
        actualSet == Range(actualFiles)
        baselineSet == Range(baselineFiles)
        intersection == Filter(baselineFiles, actualSet)
        missingInActual == Filter(baselineFiles, baselineSet \ actualSet)
        missingInBaseline == missingInBaselineOf(actualFiles, actualSet, baselineSet)
        loop == CompareLoop(compareOptions, intersection, 1, <<>>, {})
        totalCompared == Len(loop.diffs)
        summary == Summarize([i \in 1..Len(loop.diffs) |-> loop.diffs[i].mismatchRatio])
    IN IF loop.status = "thrown" THEN [loop EXCEPT !.status = "thrown"] @@ [summary |-> NoSummary]
       ELSE [status |-> "returned", error |-> NoFailure, diffs |-> loop.diffs, written |-> loop.written,
             summary |->
                [returned |-> TRUE,
                 diffs |-> loop.diffs,
                 totalCompared |-> totalCompared,
                 maxMismatch |-> summary.maxMismatch,
                 averageMismatch |-> summary.averageMismatch,
                 missingInActual |-> missingInActual,
                 missingInBaseline |-> missingInBaseline]]

NotCalled == [status |-> "none", error |-> NoFailure, diffs |-> <<>>, written |-> {}, summary |-> NoSummary]
DiffDirs == {"undefined", "diffDir"}

CompareIdle ==
    /\ dirs = [A |-> [f \in FileNames |-> Absent], B |-> [f \in FileNames |-> Absent],
               diffDir |-> "undefined"]
    /\ cmp = [ab |-> NotCalled, ba |-> NotCalled]

\* two directories A and B and the diffDir option of the calls; the calls are
\* made in both directions, so only A is given the upper-case file every time
CompareInit ==
    /\ dirs \in [A : {d \in Directories : d[UpperName] # Absent}, B : Directories, diffDir : DiffDirs]
    /\ cmp = [ab |-> NotCalled, ba |-> NotCalled]

\* compareFrameSequences({ actualDir: A, baselineDir: B })
CompareAB ==
    /\ cmp.ab.status = "none"
    /\ cmp' = [cmp EXCEPT !.ab = compareFrameSequences(
                   [actualDir |-> dirs.A, baselineDir |-> dirs.B, diffDir |-> dirs.diffDir])]
    /\ UNCHANGED <<dirs, renderVars, serverVars, toolVars>>

\* compareFrameSequences({ actualDir: B, baselineDir: A })
CompareBA ==
    /\ cmp.ba.status = "none"
    /\ cmp' = [cmp EXCEPT !.ba = compareFrameSequences(
                   [actualDir |-> dirs.B, baselineDir |-> dirs.A, diffDir |-> dirs.diffDir])]
    /\ UNCHANGED <<dirs, renderVars, serverVars, toolVars>>

CompareNext == CompareAB \/ CompareBA

---------------------------------------------------------------------------
(* The release manifest: writeReleaseManifest. A file path is absolute or   *)
(* relative to the working directory of the process and is a sequence of    *)
(* segments.                                                                *)

MaxManifestFrames == 2

Abs(segments) == [absolute |-> TRUE, segments |-> segments]
Rel(segments) == [absolute |-> FALSE, segments |-> segments]
Seg(name) == <<name>>

\* process.cwd()
WorkingDirs == {<<Seg("w")>>, <<Seg("home"), Seg("u")>>}

\* path.resolve(path) in working directory cwd
resolvePath(cwd, path) ==
    IF path.absolute THEN ResolveSegments(<<>>, path.segments)
    ELSE ResolveSegments(cwd, path.segments)

\* path.dirname
dirname(path) ==
    [path EXCEPT !.segments = IF @ = <<>> THEN @ ELSE SubSeq(@, 1, Len(@) - 1)]

\* path.join
joinPath(path, name) == [path EXCEPT !.segments = Append(@, name)]

RECURSIVE CommonLength(_, _)
CommonLength(a, b) ==
    IF a = <<>> \/ b = <<>> \/ Head(a) # Head(b) THEN 0
    ELSE 1 + CommonLength(Tail(a), Tail(b))

\* the way from directory `from` to `to`, both given from the root: up to the
\* common ancestor, then down
RelativeSegments(fromSegments, toSegments) ==
    LET common == CommonLength(fromSegments, toSegments)
    IN [i \in 1..(Len(fromSegments) - common) |-> DotDot]
         \o SubSeq(toSegments, common + 1, Len(toSegments))

relativeToWorkingDir(cwd, from, to) == Rel(RelativeSegments(cwd, resolvePath(cwd, to)))
\* path.relative(from, to): both are resolved against the working directory
relative(cwd, from, to) == Rel(RelativeSegments(resolvePath(cwd, from), resolvePath(cwd, to)))

FrameDirs == {Rel(<<Seg("out")>>), Rel(<<Seg("out"), Seg("frames")>>), Abs(<<Seg("out")>>)}
OutputPaths ==
    {Rel(<<Seg("out"), Seg("manifest.json")>>), Rel(<<Seg("manifest.json")>>),
     Rel(<<DotDot, DotDot, Seg("m"), Seg("manifest.json")>>),
     Abs(<<Seg("out"), Seg("manifest.json")>>)}
VideoFiles ==
    {Rel(<<Seg("out"), Seg("loop.mp4")>>), Rel(<<DotDot, Seg("loop.mp4")>>),
     Abs(<<Seg("v"), Seg("loop.mp4")>>)}

FrameFileSegments ==
    <<Seg("frame-00000.png"), Seg("frame-00001.png"), Seg("frame-00002.png"), Seg("frame-00003.png")>>

\* the frame lists handed to the call: any frame numbers in any order
FrameLists(frameDir) ==
    UNION {{[i \in 1..n |-> [frame |-> numbers[i],
                             path |-> joinPath(frameDir, FrameFileSegments[numbers[i] + 1])]] :
               numbers \in [1..n -> 0..(MaxManifestFrames - 1)]} : n \in 0..MaxManifestFrames}

ManifestOptions ==
    UNION {[frames : FrameLists(frameDir), videoFile : VideoFiles, outputPath : OutputPaths] :
              frameDir \in FrameDirs}

\* what the file system holds at a location
FileHash(location) == <<"sha256", location>>
FileSize(location) == <<"size", location>>

NoManifest == [version |-> "none"]
NoOptions == [frames |-> <<>>, videoFile |-> Rel(<<>>), outputPath |-> Rel(<<>>)]

ManifestIdle ==
    man = [pc |-> "idle", cwd |-> <<>>, options |-> NoOptions, frameEntries |-> <<>>,
           ensured |-> {}, hashed |-> {}, statted |-> {}, writes |-> <<>>, manifest |-> NoManifest]

ManifestInit ==
    \E cwd \in WorkingDirs, manifestOptions \in ManifestOptions :
        man = [pc |-> "ensureOutDir", cwd |-> cwd, options |-> manifestOptions, frameEntries |-> <<>>,
               ensured |-> {}, hashed |-> {}, statted |-> {}, writes |-> <<>>, manifest |-> NoManifest]

manifestDir == dirname(man.options.outputPath)
ManifestUnchanged == UNCHANGED <<renderVars, serverVars, compareVars, enc, run, tmo, ord, enr, moreVars>>

UnshiftEntry(entries, entry) == <<entry>> \o entries
\* frameEntries.push(entry)
PushEntry(entries, entry) == Append(entries, entry)

AllButLastVisited(entries, inputs) == Len(entries) >= Len(inputs) - 1
\* for (const frame of options.frames) has visited every frame
AllVisited(entries, inputs) == Len(entries) = Len(inputs)

\* await ensureOutDir(dirname(options.outputPath))
EnsureManifestDir ==
    /\ man.pc = "ensureOutDir"
    /\ man' = [man EXCEPT !.pc = "frames", !.ensured = @ \cup {resolvePath(man.cwd, manifestDir)}]
    /\ ManifestUnchanged

\* one iteration of the loop over options.frames
HashFrame ==
    /\ man.pc = "frames"
    /\ ~AllVisited(man.frameEntries, man.options.frames)
    /\ LET input == man.options.frames[Len(man.frameEntries) + 1]
           location == resolvePath(man.cwd, input.path)
       IN man' = [man EXCEPT
                    !.hashed = @ \cup {location},
                    !.statted = @ \cup {location},
                    !.frameEntries = PushEntry(@, [frame |-> input.frame,
                                                   path |-> relative(man.cwd, manifestDir, input.path),
                                                   hash |-> FileHash(location),
                                                   size |-> FileSize(location)])]
    /\ ManifestUnchanged

\* the loop is over: stat(options.videoFile)
StatVideo ==
    /\ man.pc = "frames"
    /\ AllVisited(man.frameEntries, man.options.frames)
    /\ man' = [man EXCEPT !.pc = "hashVideo",
                          !.statted = @ \cup {resolvePath(man.cwd, man.options.videoFile)}]
    /\ ManifestUnchanged

\* computeFileHash(options.videoFile)
HashVideo ==
    /\ man.pc = "hashVideo"
    /\ man' = [man EXCEPT !.pc = "writeFile",
                          !.hashed = @ \cup {resolvePath(man.cwd, man.options.videoFile)}]
    /\ ManifestUnchanged

\* the manifest object, writeFile(options.outputPath, ...) and the return
WriteManifest ==
    /\ man.pc = "writeFile"
    /\ LET location == resolvePath(man.cwd, man.options.videoFile)
           manifest == [version |-> "1.0.0",
                        totalFrames |-> Len(man.options.frames),
                        video |-> [path |-> relative(man.cwd, manifestDir, man.options.videoFile),
                                   hash |-> FileHash(location), size |-> FileSize(location)],
                        frames |-> man.frameEntries]
       IN \E written \in BOOLEAN :
            man' = [man EXCEPT !.pc = IF written THEN "returned" ELSE "thrown",
                               !.writes = Append(@, [to |-> resolvePath(man.cwd, man.options.outputPath),
                                                      ensured |-> man.ensured,
                                                      hashed |-> man.hashed,
                                                      statted |-> man.statted]),
                               !.manifest = IF written THEN manifest ELSE NoManifest]
    /\ ManifestUnchanged

\* mkdirp, a hash or a stat rejects: the call throws at that step
ManifestStepFails ==
    /\ man.pc \in {"ensureOutDir", "frames", "hashVideo"}
    /\ man' = [man EXCEPT !.pc = "thrown"]
    /\ ManifestUnchanged

ManifestNext ==
    EnsureManifestDir \/ HashFrame \/ StatVideo \/ HashVideo \/ WriteManifest \/ ManifestStepFails

---------------------------------------------------------------------------
(* The video encoder: encodeVideo. The encoder process is the environment:  *)
(* once run it emits 'end' and 'error' events, in any number and order.     *)

MaxEncoderEvents == 2

\* the default export of ffmpeg-static
BinaryPaths == {"null", "ffmpeg"}
Codecs == {"undefined", "libx264", "libvpx"}
PixelFormats == {"undefined", "yuv420p", "yuv444p"}
EncoderErrors == {"ffmpeg exited with code 1", "spawn ENOENT"}
EncodeOptions ==
    [inputPattern : {"frame-%05d.png"}, outputFile : {"output.mp4"}, codec : Codecs,
     pixelFormat : PixelFormats]

\* value ?? fallback
OrElse(value, fallback) == IF value = "undefined" THEN fallback ELSE value

\* the command built by the fluent-ffmpeg chain
EncoderCommand(binaryPath, encodeOptions) ==
    [ffmpegPath |-> binaryPath,
     input |-> encodeOptions.inputPattern,
     videoCodec |-> OrElse(encodeOptions.codec, "libx264"),
     outputOptions |-> <<"-pix_fmt", OrElse(encodeOptions.pixelFormat, "yuv420p"), "-y">>,
     output |-> encodeOptions.outputFile]

BinaryNeverMissing(binaryPath) == FALSE
\* binaryPath == null
BinaryMissing(binaryPath) == binaryPath = "null"

NoEncodeOptions ==
    [inputPattern |-> "none", outputFile |-> "none", codec |-> "undefined", pixelFormat |-> "undefined"]
EncodeState(pcValue, binaryPath, encodeOptions) ==
    [pc |-> pcValue, binaryPath |-> binaryPath, options |-> encodeOptions, commands |-> <<>>,
     events |-> <<>>, promise |-> "none", error |-> "none", settlements |-> <<>>]

EncodeIdle == enc = EncodeState("idle", "ffmpeg", NoEncodeOptions)
EncodeInit ==
    \E binaryPath \in BinaryPaths, encodeOptions \in EncodeOptions :
        enc = EncodeState("called", binaryPath, encodeOptions)

EncodeUnchanged == UNCHANGED <<renderVars, serverVars, compareVars, man, run, tmo, ord, enr, moreVars>>

\* the synchronous part of encodeVideo: the binary check, the promise, .run()
EncodeStart ==
    /\ enc.pc = "called"
    /\ enc' = IF BinaryMissing(enc.binaryPath)
              THEN [enc EXCEPT !.pc = "done", !.promise = "rejected",
                               !.error = "ffmpeg-static binary not found",
                               !.settlements = Append(@, "rejected")]
              ELSE [enc EXCEPT !.pc = "running", !.promise = "pending",
                               !.commands = Append(@, EncoderCommand(enc.binaryPath, enc.options))]
    /\ EncodeUnchanged

\* the encoder emits 'end': resolvePromise()
EncoderEnds ==
    /\ enc.pc \in {"running", "done"}
    /\ enc.commands # <<>>
    /\ Len(enc.events) < MaxEncoderEvents
    /\ enc' = IF enc.promise = "pending"
              THEN [enc EXCEPT !.pc = "done", !.promise = "resolved", !.events = Append(@, "end"),
                               !.settlements = Append(@, "resolved")]
              ELSE [enc EXCEPT !.events = Append(@, "end")]
    /\ EncodeUnchanged

\* the encoder emits 'error': rejectPromise(error)
EncoderFails ==
    /\ enc.pc \in {"running", "done"}
    /\ enc.commands # <<>>
    /\ Len(enc.events) < MaxEncoderEvents
    /\ \E error \in EncoderErrors :
         enc' = IF enc.promise = "pending"
                THEN [enc EXCEPT !.pc = "done", !.promise = "rejected", !.error = error,
                                 !.events = Append(@, error), !.settlements = Append(@, "rejected")]
                ELSE [enc EXCEPT !.events = Append(@, error)]
    /\ EncodeUnchanged

EncodeNext == EncodeStart \/ EncoderEnds \/ EncoderFails

---------------------------------------------------------------------------
(* The pipeline: the pipeline script calling runRenderAndEncode and then    *)
(* writeReleaseManifest.                                                    *)

\* process.argv[3] ?? "artifacts/frames"
pipelineOutDir == Rel(<<Seg("artifacts"), Seg("frames")>>)

\* inferFramePattern(frames, outDir) ?? join(outDir, "frame-%05d.png"): the
\* digits of the first frame's file name give the width of the counter
framePatternOf(renderedFrames) ==
    IF renderedFrames = <<>>
    THEN [dir |-> "outDir", prefix |-> "frame-", width |-> FramePadWidth, suffix |-> ".png"]
    ELSE LET name == renderedFrames[1].path.file
         IN [dir |-> "outDir", prefix |-> name[1], width |-> Len(name[2]), suffix |-> name[3]]

\* the frame records as paths of the file system
FramesOnDisk(renderedFrames) ==
    [i \in 1..Len(renderedFrames) |->
        [frame |-> renderedFrames[i].frame,
         path |-> joinPath(pipelineOutDir, FrameFileSegments[DigitsValue(renderedFrames[i].path.file[2]) + 1])]]

CaptureSettled(captureResult) == captureResult.status # "none"
\* await renderDeterministicFrames(options) returned
CaptureSucceeded(captureResult) == captureResult.status = "returned"

PipelineIdle == run = [pc |-> "idle", exitCode |-> 0, ensured |-> FALSE, framePattern |-> "none"]
PipelineInit == run = [pc |-> "ensureOutDir", exitCode |-> 0, ensured |-> FALSE, framePattern |-> "none"]

\* .catch: console.error, process.exitCode = 1
PipelineFailed == [run EXCEPT !.pc = "failed", !.exitCode = 1]

\* await ensureOutDir(options.outDir)
RunEnsureOutDir ==
    /\ run.pc = "ensureOutDir"
    /\ \E made \in BOOLEAN :
         run' = IF made THEN [run EXCEPT !.pc = "capture", !.ensured = TRUE] ELSE PipelineFailed
    /\ UNCHANGED <<renderVars, serverVars, compareVars, man, enc, tmo, ord, enr, moreVars>>

\* await renderDeterministicFrames(options): the steps of the capture driver
Capture ==
    /\ run.pc = "capture"
    /\ RenderNext

\* renderDeterministicFrames settled: the frame pattern and the call of
\* encodeVideo, or the rejection of runRenderAndEncode
CaptureDone ==
    /\ run.pc = "capture"
    /\ CaptureSettled(result)
    /\ IF CaptureSucceeded(result)
       THEN \E binaryPath \in BinaryPaths :
              /\ run' = [run EXCEPT !.pc = "encode", !.framePattern = framePatternOf(result.frames)]
              /\ enc' = EncodeState("called", binaryPath,
                                    [inputPattern |-> "frame-%05d.png", outputFile |-> "loop.mp4",
                                     codec |-> "undefined", pixelFormat |-> "undefined"])
       ELSE run' = PipelineFailed /\ UNCHANGED enc
    /\ UNCHANGED <<renderVars, serverVars, compareVars, man, tmo, ord, enr, moreVars>>

\* encodeVideo settled: runRenderAndEncode returns and the script calls
\* writeReleaseManifest, or runRenderAndEncode rejects
EncodeDone ==
    /\ run.pc = "encode"
    /\ enc.promise \in {"resolved", "rejected"}
    /\ IF enc.promise = "resolved"
       THEN \E cwd \in WorkingDirs :
              /\ run' = [run EXCEPT !.pc = "manifest"]
              /\ man' = [pc |-> "ensureOutDir", cwd |-> cwd,
                         options |-> [frames |-> FramesOnDisk(result.frames),
                                      videoFile |-> joinPath(pipelineOutDir, Seg("loop.mp4")),
                                      outputPath |-> joinPath(pipelineOutDir, Seg("manifest.json"))],
                         frameEntries |-> <<>>, ensured |-> {}, hashed |-> {}, statted |-> {},
                         writes |-> <<>>, manifest |-> NoManifest]
       ELSE run' = PipelineFailed /\ UNCHANGED man
    /\ UNCHANGED <<renderVars, serverVars, compareVars, enc, tmo, ord, enr, moreVars>>

\* writeReleaseManifest settled: the script logs the result or the failure
ManifestDone ==
    /\ run.pc = "manifest"
    /\ man.pc \in {"returned", "thrown"}
    /\ run' = IF man.pc = "returned" THEN [run EXCEPT !.pc = "done"] ELSE PipelineFailed
    /\ UNCHANGED <<renderVars, serverVars, compareVars, man, enc, tmo, ord, enr, moreVars>>

PipelineNext ==
    \/ RunEnsureOutDir
    \/ Capture
    \/ CaptureDone
    \/ EncodeStart \/ EncoderEnds \/ EncoderFails
    \/ EncodeDone
    \/ EnsureManifestDir \/ HashFrame \/ StatVideo \/ HashVideo \/ WriteManifest \/ ManifestStepFails
    \/ ManifestDone

---------------------------------------------------------------------------
(* The protocol timeout: resolveProtocolTimeout and its module-level cache. *)
(* The value of the environment variable is a sequence of characters.       *)

MaxTimeoutChars == 2
MaxResolutions == 3
DEFAULT_PROTOCOL_TIMEOUT_MS == 120000

Unset == <<"undefined">>
TimeoutChars == {"0", "7", "-", "x"}
TimeoutValues == UNION {[1..n -> TimeoutChars] : n \in 0..MaxTimeoutChars} \cup {Unset}

IsDigit(c) == c \in {"0", "7"}
DigitValue(c) == IF c = "7" THEN 7 ELSE 0

RECURSIVE DigitPrefix(_)
DigitPrefix(chars) ==
    IF chars = <<>> \/ ~IsDigit(Head(chars)) THEN <<>>
    ELSE <<Head(chars)>> \o DigitPrefix(Tail(chars))

RECURSIVE DecimalValue(_)
DecimalValue(digits) ==
    IF digits = <<>> THEN 0
    ELSE 10 * DecimalValue(SubSeq(digits, 1, Len(digits) - 1)) + DigitValue(digits[Len(digits)])

\* Number.parseInt(raw, 10): an optional sign, then the longest run of digits;
\* whatever follows the digits is ignored; NaN when there is no digit
parseInt(raw) ==
    LET negative == raw # <<>> /\ Head(raw) = "-"
        digits == DigitPrefix(IF negative THEN Tail(raw) ELSE raw)
    IN [nan |-> digits = <<>>,
        value |-> IF negative THEN 0 - DecimalValue(digits) ELSE DecimalValue(digits)]

\* warnedProtocolTimeout
AlreadyWarned(warned) == warned

TimeoutState(raw) ==
    [raw |-> raw, cachedProtocolTimeout |-> 0, warnedProtocolTimeout |-> FALSE,
     warnings |-> 0, resolved |-> <<>>, firstRaw |-> Unset]

TimeoutIdle == tmo = TimeoutState(Unset)
TimeoutInit == \E raw \in TimeoutValues : tmo = TimeoutState(raw)

\* one call of resolveProtocolTimeout(); cachedProtocolTimeout 0 stands for null
ResolveProtocolTimeout ==
    /\ Len(tmo.resolved) < MaxResolutions
    /\ LET raw == tmo.raw
           parsed == parseInt(raw)
           valid == raw # Unset /\ raw # <<>> /\ ~parsed.nan /\ parsed.value > 0
           warns == raw # Unset /\ raw # <<>> /\ ~valid /\ ~AlreadyWarned(tmo.warnedProtocolTimeout)
           value == IF tmo.cachedProtocolTimeout # 0 THEN tmo.cachedProtocolTimeout
                    ELSE IF valid THEN parsed.value
                    ELSE DEFAULT_PROTOCOL_TIMEOUT_MS
       IN tmo' = IF tmo.cachedProtocolTimeout # 0
                 THEN [tmo EXCEPT !.resolved = Append(@, value)]
                 ELSE [tmo EXCEPT !.cachedProtocolTimeout = value,
                                  !.warnedProtocolTimeout = @ \/ warns,
                                  !.warnings = IF warns THEN @ + 1 ELSE @,
                                  !.resolved = Append(@, value),
                                  !.firstRaw = raw]
    /\ UNCHANGED <<renderVars, serverVars, compareVars, man, enc, run, ord, enr, moreVars>>

\* the process assigns process.env.VIS_PROTOCOL_TIMEOUT
SetProtocolTimeoutEnv ==
    /\ \E raw \in TimeoutValues \ {tmo.raw} : tmo' = [tmo EXCEPT !.raw = raw]
    /\ UNCHANGED <<renderVars, serverVars, compareVars, man, enc, run, ord, enr, moreVars>>

TimeoutNext == ResolveProtocolTimeout \/ SetProtocolTimeoutEnv

---------------------------------------------------------------------------
(* The names of the frame files as characters, and their order in the      *)
(* listing of collectPngs.                                                 *)

MaxIndexDigits == 6

RECURSIVE Pow10(_)
Pow10(k) == IF k = 0 THEN 1 ELSE 10 * Pow10(k - 1)

\* the frame indices around every change of the number of digits
FrameIndexSamples ==
    UNION {{Pow10(k) - 1, Pow10(k), Pow10(k) + 1} : k \in 0..(MaxIndexDigits - 1)}

DigitChar(d) ==
    CASE d = 0 -> "0" [] d = 1 -> "1" [] d = 2 -> "2" [] d = 3 -> "3" [] d = 4 -> "4"
      [] d = 5 -> "5" [] d = 6 -> "6" [] d = 7 -> "7" [] d = 8 -> "8" [] d = 9 -> "9"

\* the characters of FrameFileName(i)
FrameFileChars(i) ==
    LET digits == FrameFileName(i)[2]
    IN <<"f", "r", "a", "m", "e", "-">> \o [k \in 1..Len(digits) |-> DigitChar(digits[k])] \o PngExt

FrameOrderIdle == ord = [pc |-> "idle", i |-> 0, j |-> 1, files |-> {}, listing |-> <<>>]

\* a capture of more than j frames, of which frames i < j are looked at
FrameOrderInit ==
    \E i, j \in FrameIndexSamples :
        /\ i < j
        /\ ord = [pc |-> "capture", i |-> i, j |-> j, files |-> {}, listing |-> <<>>]

FrameOrderUnchanged == UNCHANGED <<renderVars, serverVars, compareVars, man, enc, run, tmo, enr, moreVars>>

\* page.screenshot({ path: outPath }) of frames i and j
WriteFrameFiles ==
    /\ ord.pc = "capture"
    /\ ord' = [ord EXCEPT !.pc = "compare",
                          !.files = {FrameFileChars(ord.i), FrameFileChars(ord.j)}]
    /\ FrameOrderUnchanged

\* collectPngs(dir) on the directory that holds the two files
ListFrameFiles ==
    /\ ord.pc = "compare"
    /\ ord' = [ord EXCEPT !.pc = "listed",
                          !.listing = collectPngs([f \in ord.files |-> NotPng])]
    /\ FrameOrderUnchanged

FrameOrderNext == WriteFrameFiles \/ ListFrameFiles

---------------------------------------------------------------------------
(* The errors of labelled steps: withStep's catch block, enrichError and   *)
(* appendProtocolTimeoutHint. A message is a sequence of pieces of text;   *)
(* a piece is a pair of its text and a number (the label mark of a prefix, *)
(* the timeout of a hint, 0 otherwise).                                    *)

MaxEnrichSteps == 3

Piece(text) == <<text, 0>>
Space == Piece(" ")
NewLine == Piece("\n")
\* `[${label}]`
LabelPrefix(label) == <<label, 1>>
\* `Hint: Increase VIS_PROTOCOL_TIMEOUT (currently ${timeout}ms) or ensure ...`
Hint(timeout) == <<"Hint: Increase VIS_PROTOCOL_TIMEOUT", timeout>>

\* the pieces the regular expression of appendProtocolTimeoutHint matches;
\* the expression ignores case
TimeoutShapes ==
    {Piece("Log.enable timed out"), Piece("Network.enable timed out"),
     Piece("NETWORK.ENABLE TIMED OUT"), Piece("Performance.enable timed out"),
     Piece("Page.addScriptToEvaluateOnNewDocument timed out")}

IsTimeoutShaped(message) == \E k \in 1..Len(message) : message[k] \in TimeoutShapes

\* error.message.includes("VIS_PROTOCOL_TIMEOUT")
NamesTimeoutVariable(message) ==
    \E k \in 1..Len(message) :
        message[k][1] \in {"VIS_PROTOCOL_TIMEOUT", "Hint: Increase VIS_PROTOCOL_TIMEOUT"}

\* error.message.startsWith(`[${label}]`)
StartsWithLabel(message, label) == message # <<>> /\ message[1] = LabelPrefix(label)

appendProtocolTimeoutHintEveryTime(message, timeout) ==
    IF IsTimeoutShaped(message) THEN message \o <<NewLine, Hint(timeout)>> ELSE message

\* timeout is the value of resolveProtocolTimeout()
appendProtocolTimeoutHint(message, timeout) ==
    IF IsTimeoutShaped(message) /\ ~NamesTimeoutVariable(message)
    THEN message \o <<NewLine, Hint(timeout)>>
    ELSE message

\* a thrown value: an Error with its message, or another value with String(value)
Thrown(isError, message) == [isError |-> isError, message |-> message]

enrichError(error, label, timeout) ==
    IF error.isError
    THEN Thrown(TRUE, appendProtocolTimeoutHint(
                          IF StartsWithLabel(error.message, label) THEN error.message
                          ELSE <<LabelPrefix(label), Space>> \o error.message,
                          timeout))
    ELSE Thrown(TRUE, appendProtocolTimeoutHint(
                          <<LabelPrefix(label), Space>> \o error.message, timeout))

\* labels of steps of renderWithProfile
StepLabels == {"Opening new page", "Closing Chromium"}

\* what the actions of the steps throw
RaisedMessages ==
    {<<Piece("Navigation failed")>>,
     <<Piece("Network.enable timed out")>>,
     <<Piece("NETWORK.ENABLE TIMED OUT")>>,
     <<Piece("Protocol error: "), Piece("Page.addScriptToEvaluateOnNewDocument timed out")>>,
     <<Piece("Log.enable timed out"), Piece(". Increase the 'protocolTimeout' setting")>>}

\* values resolveProtocolTimeout() returns: the default, and VIS_PROTOCOL_TIMEOUT=7
ProtocolTimeouts == {DEFAULT_PROTOCOL_TIMEOUT_MS, 7}

EnrichState(raised, timeout) ==
    [pc |-> "thrown", raised |-> raised, error |-> raised, before |-> raised,
     timeout |-> timeout, labels |-> <<>>]

EnrichIdle == enr = [pc |-> "idle", raised |-> Thrown(TRUE, <<>>), error |-> Thrown(TRUE, <<>>),
                     before |-> Thrown(TRUE, <<>>), timeout |-> DEFAULT_PROTOCOL_TIMEOUT_MS,
                     labels |-> <<>>]

EnrichInit ==
    \E isError \in BOOLEAN, message \in RaisedMessages, timeout \in ProtocolTimeouts :
        enr = EnrichState(Thrown(isError, message), timeout)

\* the catch block of withStep(label, action): the value the action threw, or
\* let through, is enriched and thrown on
EscapeStep ==
    /\ enr.pc = "thrown"
    /\ Len(enr.labels) < MaxEnrichSteps
    /\ \E label \in StepLabels :
          enr' = [enr EXCEPT !.before = enr.error,
                             !.error = enrichError(enr.error, label, enr.timeout),
                             !.labels = Append(@, label)]
    /\ UNCHANGED <<renderVars, serverVars, compareVars, man, enc, run, tmo, ord, moreVars>>

EnrichNext == EscapeStep

---------------------------------------------------------------------------
(* Requests handled concurrently by the static entry server: every request *)
(* runs the handler of createStaticEntryServer, whose asynchronous part    *)
(* yields at each stat and while the file is streamed.                     *)

MaxConcurrent == 2

RequestIds == 1..MaxConcurrent

\* "/", "/a", "/a:1", "/a/" and "//"
ConcurrentUrls ==
    {<<Empty>>, << <<"a">> >>, << <<"a", ":", "1">> >>, << <<"a">>, Empty >>, <<Empty, Empty>>}
ConcurrentRequests ==
    {[method |-> "GET", url |-> url] : url \in ConcurrentUrls}
        \cup {[method |-> "HEAD", url |-> << <<"a">> >>], [method |-> "POST", url |-> <<Empty, Empty>>]}

\* new URL(request.url, "http://localhost") throws a TypeError for "//": the
\* parser reads what follows "//" as a host, and the host is empty
UrlParses(url) == url # <<Empty, Empty>>

ConcurrentIdle ==
    con = [requests |-> <<>>, handlers |-> <<>>, crashed |-> FALSE]

ConcurrentInit ==
    \E requests \in [RequestIds -> ConcurrentRequests] :
        con = [requests |-> requests, handlers |-> [r \in RequestIds |-> Received],
               crashed |-> FALSE]

ConcurrentUnchanged == UNCHANGED <<renderVars, serverVars, compareVars,
                                   man, enc, run, tmo, ord, enr, eng, aud, agg>>

\* the 'request' listener runs for request r up to the start of its
\* asynchronous part; an exception thrown by the listener is caught by
\* nothing and ends the process
HandlerStarts(r) ==
    /\ ~con.crashed
    /\ con.handlers[r].phase = "received"
    /\ LET req == con.requests[r]
       IN IF MethodAllowed(req.method) /\ ~UrlParses(req.url)
          THEN con' = [con EXCEPT !.handlers[r].phase = "threw", !.crashed = TRUE]
          ELSE con' = [con EXCEPT !.handlers[r] = HandleRequest(@, req)]
    /\ ConcurrentUnchanged

\* the asynchronous part of the handler of request r resumes for one
\* iteration of its lookup loop
HandlerLooksUp(r) ==
    /\ ~con.crashed
    /\ con.handlers[r].phase = "lookup"
    /\ \E outcome \in LookupOutcomes :
          con' = [con EXCEPT !.handlers[r] = LookupStep(@, con.requests[r], outcome)]
    /\ ConcurrentUnchanged

ConcurrentNext == \E r \in RequestIds : HandlerStarts(r) \/ HandlerLooksUp(r)

---------------------------------------------------------------------------
(* The summary of one comparison computed from the counts of its frames.   *)

\* differing pixels and pixels of a compared frame: images of two and of five pixels
PixelCounts ==
    {[diffPixels |-> 1, totalPixels |-> 2]}
        \cup {[diffPixels |-> d, totalPixels |-> 5] : d \in {0, 1, 2, 5}}

NoSummaryYet == [totalCompared |-> 0, ratios |-> <<>>, maxMismatch |-> DoubleZero,
                 averageMismatch |-> DoubleZero]

SummaryIdle == agg = [pc |-> "idle", counts |-> <<>>, summary |-> NoSummaryYet]

SummaryInit ==
    \E n \in 0..MaxSummaryFrames :
        \E counts \in [1..n -> PixelCounts] :
            agg = [pc |-> "compared", counts |-> counts, summary |-> NoSummaryYet]

\* the end of compareFrameSequences, after the loop over the frames
Aggregate ==
    /\ agg.pc = "compared"
    /\ LET ratios == [i \in 1..Len(agg.counts) |->
                         mismatchRatioOf(agg.counts[i].diffPixels, agg.counts[i].totalPixels)]
       IN agg' = [agg EXCEPT !.pc = "returned", !.summary = Summarize(ratios)]
    /\ UNCHANGED <<renderVars, serverVars, compareVars, man, enc, run, tmo, ord, enr, con, eng, aud>>

SummaryNext == Aggregate

(***************************************************************************)
(* VisEngine's animation loop (packages/core): start() and stop(), the      *)
(* tick callback that start() hands to requestAnimationFrame, and the calls *)
(* a listener, a scene or a plugin makes back into the engine while a tick  *)
(* is running.  Handles are numbered from 1; 0 stands for null.             *)
(***************************************************************************)
MaxHandles == 5

NullHandle == 0

\* a VisEngine after its constructor: rafHandle = null, running = false
EngineConstructed ==
    [running |-> FALSE, rafHandle |-> NullHandle, pending |-> {}, handles |-> 0,
     at |-> "none", frame |-> 0, lateUpdates |-> FALSE, reentered |-> FALSE]

EngineIdle == eng = EngineConstructed

\* requestAnimationFrame(tick): the callback is queued under a new handle
requestAnimationFrame(e) ==
    [e EXCEPT !.handles = @ + 1, !.pending = @ \cup {e.handles + 1}, !.rafHandle = e.handles + 1]

\* cancelAnimationFrame(handle): a handle that has already fired is ignored
cancelAnimationFrame(e, handle) == [e EXCEPT !.pending = @ \ {handle}]

\* VisEngine.start()
start(e) ==
    IF e.running THEN e ELSE requestAnimationFrame([e EXCEPT !.running = TRUE])

\* VisEngine.stop()
stop(e) ==
    LET stopped == [e EXCEPT !.running = FALSE]
    IN IF e.rafHandle # NullHandle
       THEN [cancelAnimationFrame(stopped, e.rafHandle) EXCEPT !.rafHandle = NullHandle]
       ELSE stopped

\* DeterministicClock.seek(frame)
seek(e, toFrame) == [e EXCEPT !.frame = toFrame]

\* the demo's restartLoop: engine.stop(); loop.clock.seek(0); engine.start()
restartLoop(e) == start(seek(stop(e), 0))

EngineCalls == {"start", "stop", "restartLoop"}
Call(e, call) ==
    CASE call = "start" -> start(e)
      [] call = "stop" -> stop(e)
      [] call = "restartLoop" -> restartLoop(e)
      [] OTHER -> e

\* what a listener, a scene or a plugin does during a tick: nothing, or one
\* call back into the engine
Reenter(e, call) ==
    IF call = "none" THEN e ELSE [Call(e, call) EXCEPT !.reentered = TRUE]

\* scene.update and plugin.update are handed the update of the running tick
Delivered(e) == [e EXCEPT !.lateUpdates = @ \/ ~e.running]

EngineUnchanged == UNCHANGED <<renderVars, serverVars, compareVars,
                               man, enc, run, tmo, ord, enr, con, aud, agg>>

\* start(), stop() or restartLoop() called from a task of its own
EngineCall ==
    /\ eng.at = "none"
    /\ \E call \in EngineCalls : eng' = Call(eng, call)
    /\ eng'.handles <= MaxHandles
    /\ eng' # eng
    /\ EngineUnchanged

\* the oldest pending callback runs: tick up to emit("engine:update", update)
TickStarts ==
    /\ eng.at = "none"
    /\ eng.pending # {}
    /\ LET handle == CHOOSE h \in eng.pending : \A other \in eng.pending : h <= other
           fired == [eng EXCEPT !.pending = @ \ {handle}]
       IN IF ~eng.running
          THEN eng' = fired
          ELSE \E call \in EngineCalls \cup {"none"} :
                  eng' = Reenter([fired EXCEPT !.frame = @ + 1, !.at = "scene"], call)
    /\ eng'.handles <= MaxHandles
    /\ EngineUnchanged

\* this.scene?.update(update, ...)
SceneUpdate ==
    /\ eng.at = "scene"
    /\ \E call \in EngineCalls \cup {"none"} :
          eng' = Reenter([Delivered(eng) EXCEPT !.at = "plugins"], call)
    /\ eng'.handles <= MaxHandles
    /\ EngineUnchanged

\* for (const plugin of this.plugins) plugin.update?.(update)
PluginUpdate ==
    /\ eng.at = "plugins"
    /\ \E call \in EngineCalls \cup {"none"} :
          eng' = Reenter([Delivered(eng) EXCEPT !.at = "reschedule"], call)
    /\ eng'.handles <= MaxHandles
    /\ EngineUnchanged

\* this.rafHandle = requestAnimationFrame(tick), the last statement of tick
Reschedule ==
    /\ eng.at = "reschedule"
    /\ eng.handles < MaxHandles
    /\ eng' = [requestAnimationFrame(eng) EXCEPT !.at = "none"]
    /\ EngineUnchanged

EngineNext == EngineCall \/ TickStarts \/ SceneUpdate \/ PluginUpdate \/ Reschedule

(***************************************************************************)
(* AudioController.connect (packages/audio): the connected flag, the        *)
(* connectTask shared by concurrent callers, the task's wait for            *)
(* Tone.start() raced against a timer, and what the task registers with     *)
(* the transport.  Tasks are numbered from 1; 0 stands for null.            *)
(***************************************************************************)
MaxConnectCalls == 4

NoTask == 0

\* an AudioController after its constructor, and a transport nothing was
\* scheduled on
AudioConstructed ==
    [connected |-> FALSE, connectTask |-> NoTask, tasks |-> <<>>, callers |-> <<>>,
     synths |-> FALSE, toneStarts |-> 0, beatSchedules |-> 0, barSchedules |-> 0,
     synthSchedules |-> 0, transportStarts |-> 0]

AudioIdle == aud = AudioConstructed

connectTaskIgnored(a) == FALSE
\* if (this.connectTask) return this.connectTask
connectTaskPending(a) == a.connectTask # NoTask

\* bootstrapSynths: the three synths and their three repeat schedules, unless
\* one of the synths exists already
bootstrapSynths(a) ==
    IF a.synths THEN a
    ELSE [a EXCEPT !.synths = TRUE, !.synthSchedules = @ + 3]

\* the task's statements after await startPromise, up to connected = true
RegisterAndStart(a) ==
    [bootstrapSynths([a EXCEPT !.beatSchedules = @ + 1, !.barSchedules = @ + 1])
        EXCEPT !.transportStarts = @ + 1, !.connected = TRUE]

Caller(task, creator, status) == [task |-> task, creator |-> creator, status |-> status]

\* a call of connect() up to its first await
connect(a) ==
    IF a.connected
    THEN [a EXCEPT !.callers = Append(@, Caller(NoTask, FALSE, "returned"))]
    ELSE IF connectTaskPending(a)
    THEN [a EXCEPT !.callers = Append(@, Caller(a.connectTask, FALSE, "waiting"))]
    ELSE LET task == Len(a.tasks) + 1
         IN [a EXCEPT !.tasks = Append(@, "race"),
                      !.toneStarts = @ + 1,
                      !.connectTask = task,
                      !.callers = Append(@, Caller(task, TRUE, "waiting"))]

TaskSettled(a, task) == a.tasks[task] \in {"resolved", "rejected"}

AudioUnchanged == UNCHANGED <<renderVars, serverVars, compareVars,
                              man, enc, run, tmo, ord, enr, con, eng, agg>>

Connect ==
    /\ Len(aud.callers) < MaxConnectCalls
    /\ aud' = connect(aud)
    /\ AudioUnchanged

\* Tone.start() resolves first: the race is won, the timer is cleared, and
\* the task returns if connected is set, else awaits startPromise
StartResolves ==
    /\ \E task \in 1..Len(aud.tasks) :
          /\ aud.tasks[task] = "race"
          /\ aud' = [aud EXCEPT !.tasks[task] = IF aud.connected THEN "resolved" ELSE "started"]
    /\ AudioUnchanged

\* Tone.start() rejects, or the timer fires after 2000 ms: the task rejects
StartFails ==
    /\ \E task \in 1..Len(aud.tasks) :
          /\ aud.tasks[task] = "race"
          /\ aud' = [aud EXCEPT !.tasks[task] = "rejected"]
    /\ AudioUnchanged

\* the task goes on after await startPromise
TaskRegisters ==
    /\ \E task \in 1..Len(aud.tasks) :
          /\ aud.tasks[task] = "started"
          /\ aud' = [RegisterAndStart(aud) EXCEPT !.tasks[task] = "resolved"]
    /\ AudioUnchanged

\* a caller goes on once the task it awaits has settled; the caller that
\* created the task clears connectTask in its finally block
CallerResumes ==
    /\ \E c \in 1..Len(aud.callers) :
          LET caller == aud.callers[c]
          IN /\ caller.status = "waiting"
             /\ TaskSettled(aud, caller.task)
             /\ aud' = [aud EXCEPT !.callers[c].status = aud.tasks[caller.task],
                                   !.connectTask = IF caller.creator THEN NoTask ELSE @]
    /\ AudioUnchanged

AudioNext == Connect \/ StartResolves \/ StartFails \/ TaskRegisters \/ CallerResumes


MoreIdle == ConcurrentIdle /\ EngineIdle /\ AudioIdle /\ SummaryIdle

ToolsIdle == ManifestIdle /\ EncodeIdle /\ PipelineIdle /\ TimeoutIdle /\ FrameOrderIdle /\ EnrichIdle /\ MoreIdle

Init == RenderInit /\ ServerIdle /\ CompareIdle /\ ToolsIdle
Next == RenderNext
Spec == Init /\ [][Next]_vars


\* the run-to-completion scheduling of the single async call chain: a step
\* that can be taken is eventually taken
FairSpec == Spec /\ WF_vars(Next)

\* the capture of two frames of a built entry under every value of VIS_HEADLESS
HeadlessRun ==
    /\ RenderInitFrom([DefaultInputs EXCEPT !.headless = AllHeadlessEnvValues]) /\ options.totalFrames = 2 /\ env.entryExists
    /\ ServerIdle /\ CompareIdle /\ ToolsIdle
HeadlessSpec == HeadlessRun /\ [][Next]_vars

\* the frame loop at several frame rates, on a linux host with VIS_HEADLESS=true
FrameLoopRun ==
    /\ RenderInitFrom([DefaultInputs EXCEPT !.headless = {"true"}, !.fps = FrameRates])
    /\ env.platform = "linux" /\ env.entryExists
    /\ ServerIdle /\ CompareIdle /\ ToolsIdle
FrameLoopSpec == FrameLoopRun /\ [][Next]_vars

\* captures of two frames of a local entry on a linux host in which
\* close() of the browser and of the static server can reject
CleanupRun ==
    /\ RenderInitFrom([DefaultInputs EXCEPT !.headless = {"unset"}, !.closeMayReject = {TRUE}])
    /\ env.platform = "linux" /\ env.entryExists
    /\ options.entry = "local" /\ options.totalFrames = 2
    /\ ServerIdle /\ CompareIdle /\ ToolsIdle
CleanupSpec == CleanupRun /\ [][Next]_vars

\* captures from pages that report errors while loading, on a linux host with
\* VIS_HEADLESS=true
ReadinessRun ==
    /\ RenderInitFrom([DefaultInputs EXCEPT !.headless = {"true"}, !.pages = Pages])
    /\ env.platform = "linux" /\ env.entryExists
    /\ ServerIdle /\ CompareIdle /\ ToolsIdle
ReadinessSpec == ReadinessRun /\ [][Next]_vars

\* one request to the static entry server, any method and URL
ServerRequest == ServerInit /\ RenderIdle /\ CompareIdle /\ ToolsIdle
ServerSpec == ServerRequest /\ [][ServerNext]_vars

\* the comparator called on two directories, in both directions
CompareCalls == CompareInit /\ RenderIdle /\ ServerIdle /\ ToolsIdle

\* one writeReleaseManifest call
ManifestCall == ManifestInit /\ EncodeIdle /\ PipelineIdle /\ TimeoutIdle /\ FrameOrderIdle /\ EnrichIdle /\ MoreIdle /\ RenderIdle /\ ServerIdle /\ CompareIdle
ManifestSpec == ManifestCall /\ [][ManifestNext]_vars

\* one encodeVideo call
EncodeCall == EncodeInit /\ ManifestIdle /\ PipelineIdle /\ TimeoutIdle /\ FrameOrderIdle /\ EnrichIdle /\ MoreIdle /\ RenderIdle /\ ServerIdle /\ CompareIdle
EncodeSpec == EncodeCall /\ [][EncodeNext]_vars

\* one run of the pipeline script on a linux host with VIS_HEADLESS=true
PipelineRun ==
    /\ RenderInit /\ env.platform = "linux" /\ env.VIS_HEADLESS = "true"
    /\ PipelineInit /\ EncodeIdle /\ ManifestIdle /\ TimeoutIdle /\ FrameOrderIdle /\ EnrichIdle /\ MoreIdle /\ ServerIdle /\ CompareIdle
PipelineSpec == PipelineRun /\ [][PipelineNext]_vars

\* one process resolving the protocol timeout several times
TimeoutProcess ==
    /\ TimeoutInit /\ ManifestIdle /\ EncodeIdle /\ PipelineIdle /\ FrameOrderIdle /\ EnrichIdle /\ MoreIdle
    /\ RenderIdle /\ ServerIdle /\ CompareIdle
TimeoutSpec == TimeoutProcess /\ [][TimeoutNext]_vars

\* two frames of one capture, named and listed
FrameOrderCall ==
    /\ FrameOrderInit /\ ManifestIdle /\ EncodeIdle /\ PipelineIdle /\ TimeoutIdle /\ EnrichIdle /\ MoreIdle
    /\ RenderIdle /\ ServerIdle /\ CompareIdle
FrameOrderSpec == FrameOrderCall /\ [][FrameOrderNext]_vars

\* one thrown value escaping labelled steps
EnrichCall ==
    /\ EnrichInit /\ ManifestIdle /\ EncodeIdle /\ PipelineIdle /\ TimeoutIdle /\ FrameOrderIdle /\ MoreIdle
    /\ RenderIdle /\ ServerIdle /\ CompareIdle
EnrichSpec == EnrichCall /\ [][EnrichNext]_vars

\* several requests in flight at the static entry server
ConcurrentRequestsInFlight ==
    /\ ConcurrentInit /\ EngineIdle /\ AudioIdle /\ SummaryIdle
    /\ ManifestIdle /\ EncodeIdle /\ PipelineIdle /\ TimeoutIdle /\ FrameOrderIdle /\ EnrichIdle
    /\ RenderIdle /\ ServerIdle /\ CompareIdle
ConcurrentSpec == ConcurrentRequestsInFlight /\ [][ConcurrentNext]_vars

\* the summary of one comparison of up to MaxSummaryFrames frames
SummaryCall ==
    /\ SummaryInit /\ ConcurrentIdle /\ EngineIdle /\ AudioIdle
    /\ ManifestIdle /\ EncodeIdle /\ PipelineIdle /\ TimeoutIdle /\ FrameOrderIdle /\ EnrichIdle
    /\ RenderIdle /\ ServerIdle /\ CompareIdle
SummarySpec == SummaryCall /\ [][SummaryNext]_vars

\* a constructed engine, and calls of start, stop and restartLoop
EngineBuilt ==
    /\ EngineIdle /\ ConcurrentIdle /\ AudioIdle /\ SummaryIdle
    /\ ManifestIdle /\ EncodeIdle /\ PipelineIdle /\ TimeoutIdle /\ FrameOrderIdle /\ EnrichIdle
    /\ RenderIdle /\ ServerIdle /\ CompareIdle
EngineSpec == EngineBuilt /\ [][EngineNext]_vars

\* a constructed audio controller, and calls of connect
AudioBuilt ==
    /\ AudioIdle /\ ConcurrentIdle /\ EngineIdle /\ SummaryIdle
    /\ ManifestIdle /\ EncodeIdle /\ PipelineIdle /\ TimeoutIdle /\ FrameOrderIdle /\ EnrichIdle
    /\ RenderIdle /\ ServerIdle /\ CompareIdle
AudioSpec == AudioBuilt /\ [][AudioNext]_vars
CompareSpec == CompareCalls /\ [][CompareNext]_vars

---------------------------------------------------------------------------
(* Properties of the capture driver. *)

ProfileOrder == <<"ANGLE OpenGL", "SwiftShader", "Software fallback">>
ProfilePosition(description) == CHOOSE k \in 1..Len(ProfileOrder) : ProfileOrder[k] = description
InAttempt == pc \in {"newPage", "goto", "waitForFunction", "frameLoop", "screenshot", "closeBrowser"}

PastEntry == pc # "ensureHtmlEntry"
FailedAtEntry == PastEntry /\ headlessPreferences = <<>>

\* C18: a build is run only for a local entry whose file is absent in a
\* workspace with a package.json that declares a build script, and then once;
\* after the build the run goes on only if the file exists; with no
\* package.json or no build script the run fails without a build; a run that
\* fails at the entry starts no static server and launches no browser.
C18_BuildOnlyWhenDeclared ==
    /\ [][/\ builds' # builds =>
               /\ pc = "ensureHtmlEntry" /\ builds = 0 /\ builds' = 1
               /\ options.entry = "local" /\ ~env.entryExists
               /\ env.hasPackageJson /\ env.hasBuildScript
               /\ pc' = "renderWithHeadless" => env'.entryExists
               /\ pc' # "renderWithHeadless" => result'.status = "thrown"
          /\ (pc = "ensureHtmlEntry" /\ options.entry = "local" /\ ~env.entryExists
                /\ ~(env.hasPackageJson /\ env.hasBuildScript))
               => (builds' = builds /\ result'.status = "thrown")
          /\ (pc = "ensureHtmlEntry" /\ options.entry = "local" /\ ~env.entryExists
                /\ env.hasPackageJson /\ env.hasBuildScript)
               => builds' = builds + 1
          /\ (pc = "ensureHtmlEntry" /\ (options.entry = "remote" \/ env.entryExists))
               => (builds' = builds /\ pc' = "renderWithHeadless")
          /\ (openServers' # openServers \/ launches' # launches \/ placeholderTaken' # placeholderTaken)
               => headlessPreferences # <<>>]_vars
    /\ [](/\ builds <= 1
          /\ options.entry = "remote" => builds = 0
          /\ (PastEntry /\ ~FailedAtEntry) => (options.entry = "remote" \/ env.entryExists)
          /\ FailedAtEntry =>
                /\ result.status = "thrown" /\ pc = "done"
                /\ options.entry = "local" /\ ~env.entryExists
                /\ launches = 0 /\ attempts = <<>> /\ openBrowsers = 0
                /\ openServers = 0 /\ staticServer = "null"
                /\ ~placeholderTaken
                /\ builds = 1 <=> (env.hasPackageJson /\ env.hasBuildScript))

\* the build ran once and the entry file is still absent: the run failed
C18_Witness == FailedAtEntry /\ builds = 1 /\ result.status = "thrown"

OverrideValues == {"shell", "SHELL", "new", "New", "true", "false", "FALSE"}
ModesTried == {attempts[i][1] : i \in 1..Len(attempts)}

\* C20: with VIS_HEADLESS set to shell, new, true or false (in any letter
\* case) resolveHeadlessPreference returns one mode: shell for shell, true for
\* new and true, false for false, and the run never goes to a second mode; for
\* an unset, empty or other value it returns two distinct modes, <<true, shell>>
\* on win32 and <<shell, true>> elsewhere.
C20_HeadlessPreference ==
    PastEntry /\ ~FailedAtEntry =>
        /\ env.VIS_HEADLESS \in {"shell", "SHELL"} => headlessPreferences = <<"shell">>
        /\ env.VIS_HEADLESS \in {"new", "New", "true"} => headlessPreferences = <<"true">>
        /\ env.VIS_HEADLESS \in {"false", "FALSE"} => headlessPreferences = <<"false">>
        /\ env.VIS_HEADLESS \in OverrideValues =>
              /\ index = 1
              /\ Len(modeFailures) <= 1
              /\ ModesTried \subseteq {headlessPreferences[1]}
        /\ env.VIS_HEADLESS \notin OverrideValues =>
              /\ Len(headlessPreferences) = 2
              /\ headlessPreferences[1] # headlessPreferences[2]
              /\ headlessPreferences =
                    IF env.platform = "win32" THEN <<"true", "shell">> ELSE <<"shell", "true">>

\* under VIS_HEADLESS=new a transient failure ended the run after one mode
C20_Witness ==
    /\ env.VIS_HEADLESS = "new"
    /\ result.status = "thrown"
    /\ Len(modeFailures) = 1
    /\ "recoverable" \in modeFailures[1].error.cls

\* C23: at every moment at most one browser is open and at most one static
\* server is listening; a browser is launched only when the browser of the
\* previous profile attempt has been closed, and a static server is started
\* only when the server of the previous mode attempt has been closed.
C23_OneBrowserOneServer ==
    /\ [][/\ openBrowsers' > openBrowsers =>
               /\ openBrowsers = 0 /\ browser # "open"
               /\ previous.outcome = "failed" => browser \in {"closed", "null"}
          /\ launches' # launches => openBrowsers = 0 /\ browser # "open"
          /\ openServers' > openServers =>
               /\ openServers = 0 /\ staticServer # "listening"
               /\ openBrowsers = 0]_vars
    /\ [](openBrowsers <= 1 /\ openServers <= 1)

\* the second mode's server is listening and its browser is open after two
\* profile attempts of the first mode
C23_Witness ==
    /\ index = 2 /\ launches >= 3
    /\ browser = "open" /\ openBrowsers = 1
    /\ staticServer = "listening" /\ openServers = 1

FrameOps == <<"render", "rendered", "screenshot", "captured", "record">>
InFlight(events) ==
    Cardinality({k \in 1..Len(events) : events[k].op \in {"render", "screenshot"}})
      - Cardinality({k \in 1..Len(events) : events[k].op \in {"rendered", "captured"}})

\* C24: within one attempt the frames are handled one after the other in
\* index order: the render call of frame i, its completion, the screenshot of
\* frame i, its completion, the record of frame i, and only then the render
\* call of frame i + 1; at most one render or screenshot call is in flight;
\* the time passed to the render call of frame i is i / fps * 1000.
C24_FramesInSequence ==
    /\ \A k \in 1..Len(log.events) :
          LET event == log.events[k]
          IN /\ event.op = FrameOps[((k - 1) % 5) + 1]
             /\ event.frame = (k - 1) \div 5
             /\ event.op = "render" =>
                   event.time.num * options.fps = event.frame * 1000 * event.time.den
             /\ InFlight(SubSeq(log.events, 1, k)) <= 1
    /\ pc \in {"frameLoop", "screenshot"} =>
          /\ Len(log.events) = 5 * frame + (IF pc = "screenshot" THEN 2 ELSE 0)
          /\ InFlight(log.events) = 0
          /\ Len(frames) = frame

\* the third frame is about to be rendered at 7 frames per second
C24_Witness ==
    /\ pc = "screenshot" /\ frame = 2 /\ options.fps = 7
    /\ Len(log.events) = 12
    /\ log.events[11].time = [num |-> 2000, den |-> 7]

\* the action writes a frame file and pushes its record
WritesFrame == Len(frames') = Len(frames) + 1
WrittenPath == frames'[Len(frames')].path

\* C25 (as claimed): a frame file that was written during the run is not
\* written again during the run.
C25_FramesWrittenOnce ==
    [][WritesFrame => WrittenPath \notin DOMAIN disk]_vars

\* C25 (amended): within one attempt (a profile attempt or the placeholder
\* generator) the frame files are written in increasing index order, each
\* once; a write replaces the file, so a file left by an earlier attempt of
\* the run is overwritten, and only then is a file written a second time;
\* the files named by the records of a call that returns were all written by
\* the attempt that returned.
C25_FramesWrittenOncePerAttempt ==
    /\ [][/\ WritesFrame =>
               /\ frames'[Len(frames')].frame = Len(frames)
               /\ \A k \in 1..Len(frames) : frames[k].path # WrittenPath
               /\ disk'[WrittenPath] = IF placeholderTaken THEN "placeholder" ELSE "browser"
               /\ DOMAIN disk' = DOMAIN disk \cup {WrittenPath}
               /\ \A path \in DOMAIN disk \ {WrittenPath} : disk'[path] = disk[path]
               /\ WrittenPath \in DOMAIN disk => (launches >= 2 \/ placeholderTaken)
          /\ disk' # disk => WritesFrame]_vars
    /\ [](result.status = "returned" =>
            \A k \in 1..Len(result.frames) :
               /\ result.frames[k].path \in DOMAIN disk
               /\ disk[result.frames[k].path] = IF placeholderTaken THEN "placeholder" ELSE "browser")

\* after two browser attempts the placeholder generator has overwritten
\* frame 0 and is about to overwrite frame 1, both left by a browser attempt
C25_Witness ==
    /\ placeholderTaken /\ pc = "placeholderCopy" /\ frame = 1
    /\ launches = 2
    /\ disk[FramePath(0)] = "placeholder"
    /\ FramePath(1) \in DOMAIN disk /\ disk[FramePath(1)] = "browser"

CatchesError == Len(log.caught') = Len(log.caught) + 1
LastCaught == log.caught'[Len(log.caught')]
CaughtKinds == {log.caught[k].kind : k \in 1..Len(log.caught)}

LastModeLaunched == \E i \in 1..Len(attempts) : attempts[i][1] = headlessPreferences[index]

ReadinessFails == pc = "waitForFunction" /\ pc' = "closeBrowser"

\* C28: when the readiness wait of an attempt fails and the page has reported
\* a page error or a console error during the attempt, the attempt fails with
\* a diagnostics error that lists the recorded errors, page errors first and
\* console errors after them; when nothing was recorded it fails with the
\* error of the wait itself.
C28_ReadinessDiagnostics ==
    /\ [][ReadinessFails =>
            /\ pending'.kind = "throw"
            /\ pending'.error.attempt = launches
            /\ IF env.page.pageErrors # <<>> \/ env.page.consoleErrors # <<>>
               THEN /\ pending'.error.origin = "diagnostics"
                    /\ pending'.error.diagnostics = env.page.pageErrors \o env.page.consoleErrors
               ELSE /\ pending'.error.origin = "step"
                    /\ pending'.error.diagnostics = <<>>]_vars
    /\ [](/\ log.pageErrors \in {<<>>, env.page.pageErrors}
          /\ log.consoleErrors \in {<<>>, env.page.consoleErrors}
          /\ pc = "waitForFunction" =>
                (log.pageErrors = env.page.pageErrors /\ log.consoleErrors = env.page.consoleErrors)
          /\ result.error.origin = "diagnostics" =>
                (result.status = "thrown" /\ result.error.diagnostics # <<>>))

\* the run failed with the diagnostics of two page errors and a console error
C28_Witness ==
    /\ pc = "done" /\ result.status = "thrown"
    /\ result.error.origin = "diagnostics"
    /\ result.error.diagnostics = <<"p1", "p2", "c1">>

InModeAttempt == InAttempt \/ pc \in {"launch", "profileCatch"}

\* C30: a static server is started for a local entry and never for an http
\* or https entry; it is started before the first browser launch of its mode
\* attempt and is listening throughout every profile attempt of that mode;
\* every profile attempt navigates to the URL of the server of its mode (to
\* the entry itself when the entry is remote).
C30_ServerServesLocalEntries ==
    /\ [][/\ openServers' > openServers =>
               /\ options.entry = "local"
               /\ pc = "renderWithHeadless" /\ pc' = "launch" /\ profileIdx' = 1
               /\ launches' = launches
               /\ \A i \in 1..Len(attempts) : attempts[i][1] # headlessPreferences[index]
               /\ log'.servers = index
          /\ (pc = "renderWithHeadless" /\ pc' = "launch") =>
               (options.entry = "local" <=> openServers' = openServers + 1)
          /\ (pc = "goto" /\ pc' # "goto") =>
               log'.navigated = IF options.entry = "local" THEN ServerUrl(index) ELSE RemoteUrl]_vars
    /\ [](/\ options.entry = "remote" =>
                (openServers = 0 /\ staticServer = "null" /\ log.servers = 0)
          /\ InModeAttempt =>
                /\ options.entry = "local" =>
                      /\ staticServer = "listening" /\ openServers = 1
                      /\ log.servers = index
                      /\ log.entryUrl = ServerUrl(index)
                /\ options.entry = "remote" => log.entryUrl = RemoteUrl
                /\ InAttempt => log.navigated \in {NoUrl, log.entryUrl}
                /\ pc \in {"waitForFunction", "frameLoop", "screenshot"} =>
                      log.navigated = log.entryUrl)

\* the third profile of the second mode has navigated to the second server
C30_Witness ==
    /\ pc = "frameLoop" /\ index = 2 /\ profileIdx = 3
    /\ staticServer = "listening"
    /\ log.navigated = ServerUrl(2)

\* C1: a call that returns (browser path or placeholder path) returns exactly
\* totalFrames records; record i has frame = i and the path
\* outDir/frame-<five decimal digits of value i>.png.
C1_FrameRecords ==
    result.status = "returned" =>
        /\ Len(result.frames) = options.totalFrames
        /\ \A i \in 1..Len(result.frames) :
              LET r == result.frames[i]
              IN /\ r.frame = i - 1
                 /\ r.path.dir = "outDir"
                 /\ Len(r.path.file) = 3
                 /\ r.path.file[1] = "frame-"
                 /\ Len(r.path.file[2]) = 5
                 /\ DigitsValue(r.path.file[2]) = i - 1
                 /\ r.path.file[3] = ".png"

C1_Witness ==
    /\ result.status = "returned"
    /\ ~placeholderTaken
    /\ Len(result.frames) >= 2

\* C2 (as claimed): once an attempt has failed with a native-dependency error
\* no further browser is launched, and the run ends by returning the
\* placeholder frames.
C2_NativeFailureFallsBack ==
    /\ [][nativeFailed => launches' = launches]_vars
    /\ [](pc = "done" /\ nativeFailed => placeholderTaken /\ result.status = "returned")

C4_ResourcesReleased ==
    pc = "done" =>
        /\ openBrowsers = 0 /\ browser # "open"
        /\ openServers = 0 /\ staticServer # "listening"

C4_Witness ==
    /\ pc = "done"
    /\ result.status = "thrown"
    /\ launches >= 2
    /\ staticServer = "closed"

\* C5: within a mode the profiles are launched in the order ANGLE OpenGL,
\* SwiftShader, Software fallback, none twice; a profile after the first is
\* launched only after the one before it failed with a renderer-auto-detect
\* error; a mode attempt that throws throws the error of its last profile
\* attempt.
C5_ProfileOrder ==
    /\ \A i \in 1..Len(attempts) :
          IF i = 1 \/ attempts[i - 1][1] # attempts[i][1]
          THEN ProfilePosition(attempts[i][2]) = 1
          ELSE ProfilePosition(attempts[i][2]) = ProfilePosition(attempts[i - 1][2]) + 1
    /\ \A i, j \in 1..Len(attempts) : i # j => attempts[i] # attempts[j]
    /\ (InAttempt \/ pc = "launch") /\ profileIdx > 1 =>
          /\ previous.outcome = "failed"
          /\ previous.headless = headless
          /\ previous.idx = profileIdx - 1
          /\ "autodetect" \in previous.error.cls
    /\ pc = "closeServer" /\ pending.kind = "throw" =>
          /\ pending.error.attempt = launches
          /\ pending.error.attempt = previous.error.attempt
          /\ pending.error.cls = previous.error.cls
          /\ previous.idx = profileIdx
          /\ "autodetect" \in previous.error.cls => profileIdx = Len(ProfileOrder)

C5_Witness ==
    /\ pc = "closeServer"
    /\ pending.kind = "throw"
    /\ previous.idx = 2
    /\ "autodetect" \notin previous.error.cls
    /\ "recoverable" \in previous.error.cls

AllPolicyAttempts ==
    {<<headlessPreferences[m], ProfileOrder[k]>> :
        m \in 1..Len(headlessPreferences), k \in 1..Len(ProfileOrder)}

\* C6 (as claimed): a run fails with a transient capture error only after
\* every launch profile of every headless mode of the policy was attempted.
C6_TransientFailureExhaustsPolicy ==
    pc = "done" /\ result.status = "thrown" /\ "recoverable" \in result.error.cls =>
        {attempts[i] : i \in 1..Len(attempts)} = AllPolicyAttempts

\* C6 (amended): the second headless mode is attempted only after the first
\* mode, being "shell", failed with a recoverable error that is not a
\* native-dependency error; a run that throws did not meet that retry
\* condition in its last mode; and within a mode a later profile is launched
\* only after a renderer-auto-detect failure, transient or not.
C6_ModeRetryPolicy ==
    /\ index >= 2 =>
          /\ index = 2
          /\ Len(modeFailures) >= 1
          /\ modeFailures[1].headless = "shell"
          /\ headlessPreferences[1] = "shell"
          /\ "recoverable" \in modeFailures[1].error.cls
          /\ "native" \notin modeFailures[1].error.cls
    /\ pc = "done" /\ result.status = "thrown" /\ index >= 1 =>
          /\ modeFailures[Len(modeFailures)].error = result.error
          /\ "native" \notin result.error.cls
          /\ ~(/\ headlessPreferences[index] = "shell"
               /\ index < Len(headlessPreferences)
               /\ "recoverable" \in result.error.cls)
    /\ pc = "launch" /\ profileIdx > 1 => "autodetect" \in previous.error.cls

C6_Witness ==
    /\ pc = "done"
    /\ result.status = "thrown"
    /\ index = 2
    /\ "recoverable" \in result.error.cls
    /\ Len(attempts) = 2


---------------------------------------------------------------------------
(* Properties of the static entry server. *)

Responded == srv.phase = "done"
HasDotDot(url) == \E i \in 1..Len(url) : url[i] = DotDot
LastSegment(pathname) == pathname[Len(pathname)]

\* C21: a request whose method is neither GET nor HEAD is answered 405, once,
\* and no file is looked up or read for it, whatever its path (a path with
\* ".." segments included).
C21_OtherMethodsGet405 ==
    request.method \notin {"GET", "HEAD"} =>
        /\ srv.accessed = {} /\ srv.tried = <<>> /\ srv.visited = {}
        /\ srv.phase \in {"received", "done"}
        /\ Responded => srv.status = 405 /\ srv.ends = 1 /\ ~srv.destroyed

\* a POST to a path with a ".." segment has been answered
C21_Witness ==
    /\ request.method = "POST"
    /\ \E i \in 1..Len(request.url) : request.url[i] = DotDot
    /\ Responded /\ srv.status = 405

\* C7: a GET or HEAD request whose path has a ".." segment is answered 403
\* with no file stat'ed or read, and no request makes the server stat or read
\* a path outside the directory of the entry file.
C7_TraversalForbidden ==
    /\ (request.method \in {"GET", "HEAD"} /\ HasDotDot(request.url) /\ srv.phase \notin {"idle", "received"})
          => (Responded /\ srv.status = 403 /\ srv.accessed = {})
    /\ \A accessedPath \in srv.accessed : isWithinRoot(accessedPath)

\* the number of ":digits" groups that end the segment
RECURSIVE TrailingGroups(_)
TrailingGroups(segment) ==
    LET starts == {k \in 1..Len(segment) : IsLineGroup(SubSeq(segment, k, Len(segment)))}
    IN IF starts = {} THEN 0
       ELSE 1 + TrailingGroups(SubSeq(segment, 1, Minimum(starts) - 1))

\* C8 (as stated): one request performs at most two lookups.
C8_AtMostTwoLookups == Len(srv.tried) <= 2

\* C8 (amended): a request whose last path segment ends in k ":digits" groups
\* performs at most 1 + ceil(k / 2) lookups, each lookup after the first
\* follows a not-found lookup and tries the path tried before it with one or
\* two ":digits" groups cut from the end of its last segment, which stays
\* non-empty; 404 is answered only after a failed lookup.
C8_LookupsBoundedBySuffixGroups ==
    LET n == Len(srv.tried)
    IN /\ n >= 1 =>
            /\ srv.tried[1] = srv.sanitized
            /\ n <= 1 + (IF srv.sanitized = <<>> THEN 0
                         ELSE (TrailingGroups(LastSegment(srv.sanitized)) + 1) \div 2)
       /\ \A i \in 1..(n - 1) :
            LET before == srv.tried[i]
                after == srv.tried[i + 1]
            IN /\ before # <<>>
               /\ Len(after) = Len(before)
               /\ SubSeq(after, 1, Len(after) - 1) = SubSeq(before, 1, Len(before) - 1)
               /\ LastSegment(after) # <<>>
               /\ IsPrefix(LastSegment(after), LastSegment(before))
               /\ IsLineColumnSuffix(SubSeq(LastSegment(before), Len(LastSegment(after)) + 1,
                                            Len(LastSegment(before))))
       /\ srv.status = 404 => n >= 1

\* a request that was looked up three times (as "a:1:1:1") and answered 404
C8_Witness == Responded /\ srv.status = 404 /\ Len(srv.tried) = 3

---------------------------------------------------------------------------
(* Properties of the frame comparator. *)

PngFilesOf(dir) == {f \in FrameNames \cup {UpperName} : dir[f] # Absent}
CommonFrames == PngFilesOf(dirs.A) \cap PngFilesOf(dirs.B)
MismatchedFrames ==
    {f \in CommonFrames : dirs.A[f].width # dirs.B[f].width \/ dirs.A[f].height # dirs.B[f].height}
Calls == {call \in {cmp.ab, cmp.ba} : call.status # "none"}

\* C9: when a file name present in both directories has a different width or
\* height in the two, the call throws "Frame size mismatch for <file>" and
\* returns no summary, however many earlier frames compared cleanly; the file
\* named is the first such file in sort order, and no such file is ever among
\* the recorded diffs.
C9_DimensionMismatchIsFatal ==
    \A call \in Calls :
        /\ MismatchedFrames # {} =>
              /\ call.status = "thrown"
              /\ call.summary = NoSummary
              /\ call.error.message = "Frame size mismatch for"
              /\ call.error.file \in MismatchedFrames
              /\ \A other \in MismatchedFrames \ {call.error.file} : LexLess(call.error.file, other)
        /\ \A i \in 1..Len(call.diffs) : call.diffs[i].frame \notin MismatchedFrames

\* a call that threw on a frame after an earlier common frame compared cleanly
C9_Witness ==
    /\ cmp.ab.status = "thrown"
    /\ cmp.ab.error.file \in MismatchedFrames
    /\ Len(cmp.ab.diffs) >= 1

\* C10: when the common frames of A and B have equal dimensions, both calls
\* return, missingInActual of compare(actual = A, baseline = B) is
\* missingInBaseline of compare(actual = B, baseline = A) and the other way
\* round, and totalCompared is the same in both (the number of common frames).
C10_MissingListsSwap ==
    (cmp.ab.status # "none" /\ cmp.ba.status # "none" /\ MismatchedFrames = {}) =>
        /\ cmp.ab.status = "returned" /\ cmp.ba.status = "returned"
        /\ cmp.ab.summary.missingInActual = cmp.ba.summary.missingInBaseline
        /\ cmp.ab.summary.missingInBaseline = cmp.ba.summary.missingInActual
        /\ cmp.ab.summary.totalCompared = cmp.ba.summary.totalCompared
        /\ cmp.ab.summary.totalCompared = Cardinality(CommonFrames)

\* both calls returned, with frames missing on either side and a common frame
C10_Witness ==
    /\ cmp.ab.status = "returned" /\ cmp.ba.status = "returned"
    /\ cmp.ab.summary.missingInActual # <<>>
    /\ cmp.ab.summary.missingInBaseline # <<>>
    /\ cmp.ab.summary.totalCompared >= 1

FramesOf(diffs) == {diffs[i].frame : i \in 1..Len(diffs)}

\* C11: a directory compared with an identical copy of itself gives mismatch
\* ratio 0 for every frame, maxMismatch = averageMismatch = 0, empty
\* missingInActual and missingInBaseline, and totalCompared equal to the
\* number of png files of the directory.
C11_SelfComparisonIsClean ==
    \A call \in Calls :
        dirs.A = dirs.B =>
            /\ call.status = "returned"
            /\ \A i \in 1..Len(call.summary.diffs) :
                  /\ call.summary.diffs[i].mismatchRatio = DoubleZero
                  /\ call.summary.diffs[i].diffPixels = 0
            /\ call.summary.maxMismatch = DoubleZero
            /\ call.summary.averageMismatch = DoubleZero
            /\ call.summary.missingInActual = <<>>
            /\ call.summary.missingInBaseline = <<>>
            /\ call.summary.totalCompared = Cardinality(PngFilesOf(dirs.A))
            /\ call.written = {}

\* a directory of three png files compared with its copy
C11_Witness ==
    /\ dirs.A = dirs.B
    /\ cmp.ab.status = "returned"
    /\ cmp.ab.summary.totalCompared >= 3

\* C12: in the summary of a comparison that returns, the compared frames are
\* the png names present in both directories, missingInActual is baseline
\* minus actual, missingInBaseline is actual minus baseline, the three lists
\* are pairwise disjoint and without repetition, together they are the union
\* of the two listings, totalCompared is the size of the intersection, and
\* every list is in ascending code-unit order.
C12_SetBookkeeping ==
    \A side \in {"ab", "ba"} :
        LET call == cmp[side]
            actual == PngFilesOf(IF side = "ab" THEN dirs.A ELSE dirs.B)
            baseline == PngFilesOf(IF side = "ab" THEN dirs.B ELSE dirs.A)
            Ascending(list) == \A i, j \in 1..Len(list) : i < j => LexLess(list[i], list[j])
        IN call.status = "returned" =>
            LET compared == FramesOf(call.summary.diffs)
                inActualOnly == Range(call.summary.missingInBaseline)
                inBaselineOnly == Range(call.summary.missingInActual)
            IN /\ compared = actual \cap baseline
               /\ inBaselineOnly = baseline \ actual
               /\ inActualOnly = actual \ baseline
               /\ compared \cap inBaselineOnly = {} /\ compared \cap inActualOnly = {}
               /\ inBaselineOnly \cap inActualOnly = {}
               /\ compared \cup inBaselineOnly \cup inActualOnly = actual \cup baseline
               /\ call.summary.totalCompared = Cardinality(actual \cap baseline)
               /\ Len(call.summary.diffs) = call.summary.totalCompared
               /\ Ascending([i \in 1..Len(call.summary.diffs) |-> call.summary.diffs[i].frame])
               /\ Ascending(call.summary.missingInActual)
               /\ Ascending(call.summary.missingInBaseline)

\* a baseline with a frame the actual directory lacks, two frames compared
C12_Witness ==
    /\ cmp.ba.status = "returned"
    /\ Len(cmp.ba.summary.diffs) >= 2
    /\ Len(cmp.ba.summary.missingInActual) = 1
    /\ cmp.ba.summary.missingInBaseline = <<>>

---------------------------------------------------------------------------
(* Properties of the release manifest. *)

ManifestReturned == man.pc = "returned"
Artifacts == {man.options.videoFile} \cup {man.options.frames[i].path : i \in 1..Len(man.options.frames)}

\* C13: the frames list of the manifest has the length and the order of the
\* input frame list, entry i carries the frame number of input i, and
\* totalFrames is the length of the input list.
C13_ManifestFramesFollowInput ==
    /\ Len(man.frameEntries) <= Len(man.options.frames)
    /\ \A i \in 1..Len(man.frameEntries) : man.frameEntries[i].frame = man.options.frames[i].frame
    /\ ManifestReturned =>
          /\ Len(man.manifest.frames) = Len(man.options.frames)
          /\ man.manifest.totalFrames = Len(man.options.frames)
          /\ \A i \in 1..Len(man.options.frames) :
                man.manifest.frames[i].frame = man.options.frames[i].frame

\* a manifest over two frames that were handed over in descending order
C13_Witness ==
    /\ ManifestReturned
    /\ Len(man.manifest.frames) = 2
    /\ man.manifest.frames[1].frame > man.manifest.frames[2].frame

\* the path stored for an artifact resolves, against the directory of the
\* manifest, to the artifact
ResolvesBack(stored, artifact) ==
    /\ ~stored.absolute
    /\ ResolveSegments(resolvePath(man.cwd, manifestDir), stored.segments) = resolvePath(man.cwd, artifact)

StoredPathsResolveBack ==
    ManifestReturned =>
        /\ ResolvesBack(man.manifest.video.path, man.options.videoFile)
        /\ \A i \in 1..Len(man.options.frames) :
              ResolvesBack(man.manifest.frames[i].path, man.options.frames[i].path)

\* the stored paths are what they would be in the working directory cwd
StoredPathsAsIn(cwd) ==
    /\ man.manifest.video.path = relative(cwd, manifestDir, man.options.videoFile)
    /\ \A i \in 1..Len(man.options.frames) :
          man.manifest.frames[i].path = relative(cwd, manifestDir, man.options.frames[i].path)

\* C14 (as claimed): every stored path resolves, against the directory of the
\* manifest, to the artifact, and is the same in every working directory.
C14_PathsIndependentOfWorkingDir ==
    /\ StoredPathsResolveBack
    /\ ManifestReturned => \A cwd \in WorkingDirs : StoredPathsAsIn(cwd)

Climbs(path) == \E i \in 1..Len(path.segments) : path.segments[i] = DotDot

\* C14 (amended): every stored path is relative and resolves, against the
\* directory of the manifest, to the artifact; the stored paths are the same
\* in every working directory when outputPath and the artifact paths are all
\* absolute, or all relative and without ".." segments.
C14_PathsRelativeToManifestDir ==
    /\ StoredPathsResolveBack
    /\ (/\ ManifestReturned
        /\ \/ man.options.outputPath.absolute /\ \A artifact \in Artifacts : artifact.absolute
           \/ /\ ~man.options.outputPath.absolute /\ ~Climbs(man.options.outputPath)
              /\ \A artifact \in Artifacts : ~artifact.absolute /\ ~Climbs(artifact))
          => \A cwd \in WorkingDirs : StoredPathsAsIn(cwd)

\* a manifest in out/ whose frames are in out/frames/ and whose video is
\* outside out/
C14_Witness ==
    /\ ManifestReturned
    /\ Len(man.manifest.frames) >= 1
    /\ man.manifest.frames[1].path.segments[1] = Seg("frames")
    /\ man.manifest.video.path.segments[1] = DotDot

\* C16: a call writes the manifest file at most once, and once when it
\* returns; the write comes after the directory of the manifest was ensured
\* and after every frame and the video were hashed and stat'ed; a call that
\* throws at an earlier step has written nothing.
C16_ManifestWrittenLast ==
    /\ Len(man.writes) <= 1
    /\ ManifestReturned => Len(man.writes) = 1
    /\ man.pc \notin {"returned", "thrown"} => man.writes = <<>>
    /\ \A w \in 1..Len(man.writes) :
          /\ man.writes[w].to = resolvePath(man.cwd, man.options.outputPath)
          /\ resolvePath(man.cwd, manifestDir) \in man.writes[w].ensured
          /\ \A artifact \in Artifacts :
                /\ resolvePath(man.cwd, artifact) \in man.writes[w].hashed
                /\ resolvePath(man.cwd, artifact) \in man.writes[w].statted

\* a call that threw while hashing its second frame, and wrote nothing
C16_Witness ==
    /\ man.pc = "thrown"
    /\ Len(man.frameEntries) = 1
    /\ Len(man.options.frames) = 2
    /\ man.writes = <<>>

---------------------------------------------------------------------------
(* Properties of the video encoder. *)

\* C15: with a null binary path encodeVideo throws "ffmpeg-static binary not
\* found" without running the encoder; otherwise it runs the encoder once,
\* resolves only when 'end' was emitted and rejects only when 'error' was,
\* with the error of the first such event; it settles once, by the first
\* event emitted.
C15_EncoderOutcome ==
    /\ Len(enc.commands) <= 1
    /\ Len(enc.settlements) <= 1
    /\ enc.pc # "idle" /\ enc.binaryPath = "null" =>
          /\ enc.commands = <<>>
          /\ enc.events = <<>>
          /\ enc.pc = "done" => enc.promise = "rejected" /\ enc.error = "ffmpeg-static binary not found"
    /\ enc.pc \in {"running", "done"} /\ enc.binaryPath # "null" =>
          /\ Len(enc.commands) = 1
          /\ enc.commands[1].ffmpegPath = enc.binaryPath
          /\ enc.events = <<>> => enc.promise = "pending"
          /\ enc.events # <<>> =>
                /\ enc.settlements = <<enc.promise>>
                /\ enc.promise = "resolved" <=> enc.events[1] = "end"
                /\ enc.promise = "rejected" <=> enc.events[1] \in EncoderErrors
                /\ enc.promise = "rejected" => enc.error = enc.events[1]

\* the encoder emitted 'error' and then 'end': the call rejected, once
C15_Witness ==
    /\ Len(enc.events) = 2
    /\ enc.events[1] \in EncoderErrors
    /\ enc.events[2] = "end"
    /\ enc.promise = "rejected"

---------------------------------------------------------------------------
(* Properties of the pipeline. *)

CaptureStarted == pc # "ensureHtmlEntry" \/ launches > 0 \/ builds > 0
EncodeStarted == enc.pc # "idle"
ManifestStarted == man.pc # "idle"

\* C17: the capture starts only after the output directory was ensured, the
\* encoder is called only after the capture returned, and the manifest is
\* built only after the encoder resolved; when the capture throws no encoder
\* command is ever run, when the encoder rejects no manifest is written, and
\* every failure ends the run with exit code 1.
C17_CaptureEncodeManifestInOrder ==
    /\ CaptureStarted => run.ensured
    /\ EncodeStarted => result.status = "returned" /\ run.pc \notin {"ensureOutDir", "capture"}
    /\ ManifestStarted => enc.promise = "resolved" /\ run.pc \notin {"ensureOutDir", "capture", "encode"}
    /\ result.status = "thrown" => ~EncodeStarted /\ enc.commands = <<>> /\ ~ManifestStarted
    /\ enc.promise = "rejected" => ~ManifestStarted /\ man.writes = <<>>
    /\ man.writes # <<>> => enc.commands # <<>> /\ "end" \in Range(enc.events)
    /\ run.pc = "done" => man.pc = "returned" /\ run.exitCode = 0
    /\ run.pc = "failed" =>
          /\ run.exitCode = 1
          /\ \/ ~run.ensured
             \/ result.status = "thrown"
             \/ enc.promise = "rejected"
             \/ man.pc = "thrown"

\* a run in which three frames were captured, the encoder was run and
\* failed, and no manifest was started
C17_Witness ==
    /\ run.pc = "failed"
    /\ result.status = "returned" /\ Len(result.frames) = 3
    /\ Len(enc.commands) = 1
    /\ enc.promise = "rejected"
    /\ ~ManifestStarted

---------------------------------------------------------------------------
(* Properties of the protocol timeout. *)

\* the value is written as a positive integer: digits only, not all zero
IsPositiveInteger(raw) ==
    /\ raw # Unset /\ raw # <<>>
    /\ \A i \in 1..Len(raw) : IsDigit(raw[i])
    /\ DecimalValue(raw) > 0

\* C19: resolveProtocolTimeout returns the value of VIS_PROTOCOL_TIMEOUT when
\* that is a positive integer and 120000 otherwise; the warning is logged at
\* most once per process and every resolution of the process returns the
\* same value.
C19_TimeoutResolution ==
    /\ tmo.warnings <= 1
    /\ \A i \in 1..Len(tmo.resolved) :
          /\ tmo.resolved[i] > 0
          /\ tmo.resolved[i] = tmo.resolved[1]
          /\ tmo.resolved[i] = IF IsPositiveInteger(tmo.firstRaw) THEN DecimalValue(tmo.firstRaw)
                               ELSE DEFAULT_PROTOCOL_TIMEOUT_MS

\* what holds of every resolution: a positive value, the same every time, at
\* most one warning, and the default for values without a positive digit prefix
TimeoutResolutionsAgree ==
    /\ tmo.warnings <= 1
    /\ \A i \in 1..Len(tmo.resolved) :
          /\ tmo.resolved[i] > 0
          /\ tmo.resolved[i] = tmo.resolved[1]
          /\ IsPositiveInteger(tmo.firstRaw) => tmo.resolved[i] = DecimalValue(tmo.firstRaw)
          /\ (tmo.firstRaw = Unset \/ parseInt(tmo.firstRaw).nan \/ parseInt(tmo.firstRaw).value <= 0)
                => tmo.resolved[i] = DEFAULT_PROTOCOL_TIMEOUT_MS

---------------------------------------------------------------------------
(* Properties of the frame file names. *)

\* C22: the file name of every captured frame has exactly five digits, and of
\* two captured frames i < j the file of i is listed before the file of j by
\* collectPngs, so that the listing is in frame order.
C22_FiveDigitsSortNumerically ==
    /\ ord.pc \in {"compare", "listed"} =>
          \A name \in ord.files : Len(name) = 6 + FramePadWidth + Len(PngExt)
    /\ ord.pc = "listed" =>
          ord.listing = <<FrameFileChars(ord.i), FrameFileChars(ord.j)>>

---------------------------------------------------------------------------
(* Properties of the errors of labelled steps.                             *)

\* the hints in a message
HintsIn(message) == {k \in 1..Len(message) : message[k][1] = Hint(0)[1]}

\* the label prefixes at the head of a message
HasEscaped == enr.pc = "thrown" /\ enr.labels # <<>>
LastLabel == enr.labels[Len(enr.labels)]
SameLabelAgain ==
    /\ Len(enr.labels) >= 2
    /\ enr.labels[Len(enr.labels) - 1] = LastLabel

---------------------------------------------------------------------------
(* Properties of the requests handled concurrently.                        *)

\* nothing is left to run for request r
HandlingOver(r) == con.crashed \/ con.handlers[r].phase \in {"done", "threw"}

\* C31 (as stated): every request in flight gets one final response, a status
\* code and one end of the response and never a second one, and its handling
\* comes to that response whatever the other requests in flight do.
C31_EveryRequestAnsweredOnce ==
    \A r \in RequestIds :
        /\ con.handlers[r].ends <= 1
        /\ ~con.handlers[r].destroyed
        /\ HandlingOver(r) => con.handlers[r].ends = 1 /\ con.handlers[r].status # 0

\* a handler touches the response and the lookup state of its own request only
C31_HandlersAreIndependent ==
    [][\A r \in RequestIds :
          con.handlers'[r] # con.handlers[r] =>
              \A q \in RequestIds \ {r} : con.handlers'[q] = con.handlers[q]]_vars

---------------------------------------------------------------------------
(* Properties of the diff images and of the summary of the comparator.     *)

CompareCallsMade == {call \in {cmp.ab, cmp.ba} : call.status # "none"}
DiffsWritten(call) == {call.diffs[i].diffPath : i \in {k \in 1..Len(call.diffs) : call.diffs[k].diffPath # <<>>}}

\* C32: for every frame a call has compared, the diff image of the frame is
\* written under the frame's file name in the diff directory, and diffPath
\* names it, exactly when a diff directory was given and the frame has at
\* least one differing pixel; the diff images are the only files the call
\* writes, so a call without a diff directory writes none.
C32_DiffWrittenIffDirAndDifference ==
    \A call \in CompareCallsMade :
        /\ \A i \in 1..Len(call.diffs) :
              LET diff == call.diffs[i]
              IN /\ diff.diffPath # <<>> <=> (dirs.diffDir # "undefined" /\ diff.diffPixels > 0)
                 /\ diff.diffPath # <<>> => diff.diffPath = <<dirs.diffDir, diff.frame>>
        /\ call.written = DiffsWritten(call)
        /\ dirs.diffDir = "undefined" => call.written = {}

\* a call with a diff directory has compared a frame that differs and a frame
\* that does not
C32_Witness ==
    /\ dirs.diffDir # "undefined"
    /\ cmp.ab.status = "returned"
    /\ \E i, j \in 1..Len(cmp.ab.diffs) :
          /\ cmp.ab.diffs[i].diffPixels > 0 /\ cmp.ab.diffs[i].diffPath \in cmp.ab.written
          /\ cmp.ab.diffs[j].diffPixels = 0 /\ cmp.ab.diffs[j].diffPath = <<>>

SummaryReturned == agg.pc = "returned"
DoubleOne == DoubleOfQuotient(1, 1)
\* the double next above a positive double
NextUp(x) ==
    LET raised == AddBits(x.sig, <<1>>)
    IN IF Len(raised) > SignificandBits
       THEN [x EXCEPT !.exp = @ + 1, !.sig = SubSeq(raised, 1, SignificandBits)]
       ELSE [x EXCEPT !.sig = raised]

---------------------------------------------------------------------------
(* Properties of the mode loop and of the launches of a run.               *)

\* the mode loop goes on to its next mode
ModeRetry == index >= 1 /\ index' = index + 1

\* C34: the mode loop goes on to the next mode only from a failed "shell"
\* mode that is not the last of the list and whose error is of the
\* recoverable class; under the win32 default order <<"true", "shell">> the
\* second mode is therefore never attempted, whatever the first mode fails
\* with.
C34_ModeRetryOnlyFromShell ==
    /\ [][ModeRetry =>
            /\ pc = "modeCatch"
            /\ headlessPreferences[index] = "shell"
            /\ index < Len(headlessPreferences)
            /\ "recoverable" \in pending.error.cls]_vars
    /\ [](headlessPreferences = <<"true", "shell">> =>
            /\ index <= 1
            /\ \A i \in 1..Len(attempts) : attempts[i][1] = "true"
            /\ modeFailures # <<>> => Len(modeFailures) = 1 /\ modeFailures[1].headless = "true")

\* on win32 with VIS_HEADLESS unset the first mode has failed with a
\* recoverable error and the run has thrown it
C34_Witness ==
    /\ pc = "done"
    /\ env.platform = "win32"
    /\ headlessPreferences = <<"true", "shell">>
    /\ result.status = "thrown"
    /\ "recoverable" \in result.error.cls
    /\ Len(modeFailures) = 1

\* C35: no pair of a headless mode and a launch profile is launched twice in
\* a run, so a run launches a browser at most 6 times (two modes of three
\* profiles each); and, every step of a run terminating, the call ends with
\* frames or with an error.
C35_EachPairOnceAndTerminates ==
    /\ [](/\ \A i, j \in 1..Len(attempts) : i # j => attempts[i] # attempts[j]
          /\ launches = Len(attempts)
          /\ launches <= 6
          /\ pc # "idle" /\ index >= 1 => launches <= 3 * index)
    /\ <>(pc = "done" /\ result.status \in {"returned", "thrown"})

\* a run has launched all three profiles of both modes
C35_Witness ==
    /\ pc = "done"
    /\ launches = 6
    /\ {attempts[i] : i \in 1..Len(attempts)} = AllPolicyAttempts

\* C36: when the placeholder fallback has completed for totalFrames N, each
\* of the files of frames 0 .. N-1 exists in outDir and holds the content of
\* the synthesized frame 0, the files written by failed browser attempts
\* included, and no file in outDir holds a browser-rendered frame.
C36_PlaceholderReplacesBrowserFrames ==
    pc = "done" /\ placeholderTaken /\ result.status = "returned" =>
        /\ \A i \in 0..(options.totalFrames - 1) :
              /\ FramePath(i) \in DOMAIN disk
              /\ disk[FramePath(i)] = "placeholder"
              /\ disk[FramePath(i)] = disk[PlaceholderBasePath]
        /\ \A path \in DOMAIN disk : disk[path] # "browser"
        /\ \A path \in log.replaced : disk[path] = "placeholder"

\* the fallback has completed after a browser attempt had written two frames
C36_Witness ==
    /\ pc = "done" /\ placeholderTaken /\ result.status = "returned"
    /\ options.totalFrames = MaxFrames
    /\ Cardinality(log.replaced) = 2

\* C37: in a mode attempt with a local entry the static server is closed
\* only after the last profile attempt of that mode has gone through its
\* finally block: at the moment the server is closed no browser is open, the
\* browser launched last, if any, has been closed, and while a browser is
\* open on a local entry the server that serves it is still listening.
C37_ServerClosedAfterBrowser ==
    /\ [][staticServer = "listening" /\ staticServer' # "listening" =>
               /\ pc = "closeServer"
               /\ browser \in {"closed", "null"} /\ openBrowsers = 0
               /\ launches > 0
               /\ attempts[Len(attempts)] = <<headless, profile.description>>
               /\ previous.headless = headless /\ previous.idx = profileIdx
               /\ browser' = browser /\ launches' = launches]_vars
    /\ [](browser = "open" /\ options.entry = "local" => staticServer = "listening")

\* the server of a local entry has been closed after the browser of the third
\* profile attempt of the mode was closed
C37_Witness ==
    /\ options.entry = "local" /\ staticServer = "closed"
    /\ browser = "closed" /\ openBrowsers = 0
    /\ profileIdx = 3 /\ previous.idx = 3 /\ previous.outcome = "failed"

(***************************************************************************)
(* Properties of the engine's animation loop.                              *)
(***************************************************************************)
\* C38: after any sequence of start() and stop() calls, the calls made from
\* an engine:update listener, a scene or a plugin during a tick included, at
\* most one tick callback is pending and no update has been handed out by a
\* tick while the engine was not running.
C38_OneTickPending ==
    /\ Cardinality(eng.pending) <= 1
    /\ ~eng.lateUpdates

\* as long as no call was made from inside a tick, at most one tick callback
\* is pending, it is the one rafHandle names, and no update is handed out
\* while the engine is not running
C38_OneTickPendingWithoutReentry ==
    ~eng.reentered =>
        /\ Cardinality(eng.pending) <= 1
        /\ eng.pending \subseteq {eng.rafHandle}
        /\ ~eng.lateUpdates
        /\ eng.at = "none" => (eng.running <=> eng.pending # {})

\* two tick callbacks are pending after restartLoop was called from a listener
C38_TwoTicksPending ==
    eng.at = "none" /\ eng.running /\ Cardinality(eng.pending) = 2

(***************************************************************************)
(* Properties of the audio controller's connect.                           *)
(***************************************************************************)
TasksInFlight == {task \in 1..Len(aud.tasks) : aud.tasks[task] \in {"race", "started"}}

\* C39: over every interleaving of connect() calls the beat schedule, the bar
\* schedule and the synth schedules are registered at most once and the
\* transport is started at most once; at most one attempt is in flight, a
\* call made while an attempt is in flight awaits that attempt and starts
\* nothing itself, a new attempt is made only after the previous one was
\* rejected, and a call made once connected returns without changing
\* anything.
C39_ConnectsOnce ==
    /\ [](/\ aud.beatSchedules <= 1 /\ aud.barSchedules <= 1
          /\ aud.synthSchedules <= 3 /\ aud.transportStarts <= 1
          /\ Cardinality(TasksInFlight) <= 1
          /\ aud.toneStarts = Len(aud.tasks)
          /\ aud.connected <=> (aud.transportStarts = 1)
          /\ \A task \in 1..Len(aud.tasks) :
                /\ task < Len(aud.tasks) => aud.tasks[task] = "rejected"
                /\ Cardinality({c \in 1..Len(aud.callers) :
                       aud.callers[c].task = task /\ aud.callers[c].creator}) = 1)
    /\ [][Len(aud'.callers) > Len(aud.callers) =>
             LET caller == aud'.callers[Len(aud'.callers)]
             IN /\ TasksInFlight # {} =>
                      /\ ~caller.creator /\ caller.task \in TasksInFlight
                      /\ aud'.tasks = aud.tasks /\ aud'.toneStarts = aud.toneStarts
                /\ aud.connected =>
                      /\ caller.status = "returned"
                      /\ aud' = [aud EXCEPT !.callers = aud'.callers]]_vars

\* a first attempt shared by two callers failed, a third call connected, and
\* a fourth call returned at once
C39_Witness ==
    /\ Len(aud.callers) = 4 /\ Len(aud.tasks) = 2
    /\ aud.callers[1].creator /\ aud.callers[1].status = "rejected"
    /\ ~aud.callers[2].creator /\ aud.callers[2].task = 1 /\ aud.callers[2].status = "rejected"
    /\ aud.callers[3].creator /\ aud.callers[3].status = "resolved"
    /\ aud.callers[4].status = "returned"
    /\ aud.connected /\ aud.beatSchedules = 1 /\ aud.barSchedules = 1 /\ aud.transportStarts = 1

=============================================================================
